---- MODULE Spec2Model ----
(***************************************************************************)
(* A model of the algorithmic core of the RAG repository:                  *)
(*   - the span resolver     merge_entities (src/app/NER.py):              *)
(*       SpecMerge, SpecMergeTwice, SpecMergeFixed                         *)
(*   - the gazetteer matcher gazetteer_ner (src/app/NER.py): SpecNer       *)
(*   - the text corrector    normalize_text_entities (src/app/NER.py):     *)
(*       SpecNorm                                                          *)
(*   - the query normalizer  split_and_extract_entities                    *)
(*       (src/app/rag/query_normalizer.py): SpecQn                         *)
(*   - the graph relevance scorer calculate_graph_metrics                  *)
(*       (src/app/graph/node.py): SpecGraph, SpecGraphOrder                *)
(*   - the context optimizer GraphContextOptimizer (src/app/rag/agent.py): *)
(*       SpecOpt                                                           *)
(*   - the message handler   handle_message (src/app/handlers.py) and its  *)
(*       typing task: SpecHandler, SpecHandlerFair                         *)
(* Each component has its own variables; while one component runs, the     *)
(* variables of the others rest at their idle values.                      *)
(***************************************************************************)
EXTENDS Integers, Sequences, FiniteSets, TLC

VARIABLES
    entities,     \* merge_entities: the argument list
    result,       \* merge_entities: the returned list
    m_ents,       \* merge_entities: ents, the deduplicated, sorted list
    result_after, \* merge_entities: result_after[k] is the local list
                  \* result after the k-th candidate of ents
    m_pc,         \* "start" before the call, "done" after it, "again"
                  \* after a second call on the same list
    nodes,        \* calculate_graph_metrics: the argument list of titles
    max_length,   \* calculate_graph_metrics: the argument max_length
    graph,        \* the relationships held by the graph store (read only)
    gm_i,         \* index of the next pair of combinations(nodes, 2)
    node_scores,  \* {title: score}; a score s stands for s / Unit
    paths_between_nodes,  \* {(node1, node2): path_with_rels}
    intermediate_nodes,   \* set of titles
    gm_pc,        \* "idle", "loop", "returned", "raised"
    float_scores, \* node_scores as the floats of the code
    payload,      \* optimize: state["graph_payload"]["nodes"]
    max_iterations,   \* GraphContextOptimizer.max_iterations
    llm_calls,    \* state["llm_calls"]
    tool_calls,   \* state["messages"][-1].tool_calls of the last AI message
    tool_messages,    \* the ToolMessages the last Execute cycle appended
    ai_messages,  \* how many AI messages state["messages"] holds
    tool_cycles,  \* how many times _tools_node has been entered
    error,        \* the exception that left optimize, "none" if none did
    opt_pc,       \* "idle", "llm", "tools", "END", "raised"
    ner_text,     \* gazetteer_ner: the argument text
    ner_cutoff,   \* gazetteer_ner: the argument cutoff
    GAZETTEER,    \* the gazetteer, a list of names
    ner_ents,     \* gazetteer_ner: the returned list
    ner_pc,       \* "idle", "start", "done"
    qn_question,  \* _get_relevant_documents: the argument query
    qn_response,  \* what giga.invoke answers to the prompt
    qn_parsed,    \* the dictionary split_and_extract_entities returns
    qn_questions, \* _get_relevant_documents: the local list questions
    qn_error,     \* the exception that was propagated, "none" if none was
    qn_pc,        \* "idle", "start", "returned", "raised", "searching",
                  \* "search_raised"
    norm_text,    \* normalize_text_entities: the argument text
    norm_entities,    \* normalize_text_entities: entities, once sorted
    norm_k,       \* index of the next entity of "for e in entities"
    corrected_text,   \* normalize_text_entities: corrected_text
    norm_words,   \* the words inflect_to_case returned, in call order
    norm_pc,      \* "idle", "start", "loop", "done"
    content_type, \* handle_message: "text", "command", "photo" ("none": idle)
    handler_pc,   \* handle_message: "idle", "start", "answering",
                  \* "await_typing", "sending", "error", "finished"
    stop_typing,  \* the asyncio.Event stop_typing is set
    typing_task,  \* send_typing_action: "none", "check", "send", "sleep",
                  \* "exited"
    typing_sent,  \* chat actions sent by the typing task (saturating)
    response_chunks   \* chunks of the answer still to send

mergeVars == <<entities, result, m_ents, result_after, m_pc>>
orderVars == <<float_scores>>
scorerVars == <<nodes, max_length, gm_i, node_scores,
                paths_between_nodes, intermediate_nodes, gm_pc, orderVars>>
graphVars == <<scorerVars, graph>>
optVars == <<payload, max_iterations, llm_calls, tool_calls, tool_messages,
             ai_messages, tool_cycles, error, opt_pc>>
nerVars == <<ner_text, ner_cutoff, GAZETTEER, ner_ents, ner_pc>>
qnVars == <<qn_question, qn_response, qn_parsed, qn_questions, qn_error, qn_pc>>
normVars == <<norm_text, norm_entities, norm_k, corrected_text, norm_words, norm_pc>>
handlerVars == <<content_type, handler_pc, stop_typing, typing_task, typing_sent,
                 response_chunks>>
vars == <<mergeVars, graphVars, optVars, nerVars, qnVars, normVars, handlerVars>>

\* The values a component's variables rest at while another one runs.
MergeIdle ==
    /\ entities = <<>>
    /\ result = <<>>
    /\ m_ents = <<>>
    /\ result_after = <<>>
    /\ m_pc = "idle"

OrderIdle == float_scores = <<>>

ScorerIdle ==
    /\ OrderIdle
    /\ nodes = <<>>
    /\ max_length = 0
    /\ gm_i = 0
    /\ node_scores = <<>>
    /\ paths_between_nodes = <<>>
    /\ intermediate_nodes = {}
    /\ gm_pc = "idle"

GraphIdle == ScorerIdle /\ graph = {}

OptIdle ==
    /\ payload = <<>>
    /\ max_iterations = 0
    /\ llm_calls = 0
    /\ tool_calls = <<>>
    /\ tool_messages = <<>>
    /\ ai_messages = 0
    /\ tool_cycles = 0
    /\ error = "none"
    /\ opt_pc = "idle"

NerIdle ==
    /\ ner_text = <<>>
    /\ ner_cutoff = 0
    /\ GAZETTEER = <<>>
    /\ ner_ents = <<>>
    /\ ner_pc = "idle"

QnIdle ==
    /\ qn_question = <<>>
    /\ qn_response = [kind |-> "raises",
                      entities |-> [t |-> "missing", s |-> <<>>, items |-> <<>>],
                      questions |-> [t |-> "missing", s |-> <<>>, items |-> <<>>]]
    /\ qn_parsed = [entities |-> <<>>, questions_t |-> "missing", questions |-> <<>>]
    /\ qn_questions = <<>>
    /\ qn_error = "none"
    /\ qn_pc = "idle"

NormIdle ==
    /\ norm_text = <<>>
    /\ norm_entities = <<>>
    /\ norm_k = 0
    /\ corrected_text = <<>>
    /\ norm_words = <<>>
    /\ norm_pc = "idle"

HandlerIdle ==
    /\ content_type = "none"
    /\ handler_pc = "idle"
    /\ stop_typing = FALSE
    /\ typing_task = "none"
    /\ typing_sent = 0
    /\ response_chunks = 0

(***************************************************************************)
(* Generic helpers                                                         *)
(***************************************************************************)
Range(s) == {s[i] : i \in 1..Len(s)}

RemoveAt(s, i) == SubSeq(s, 1, i - 1) \o SubSeq(s, i + 1, Len(s))

\* the orders of the indexes 1..n
IndexOrders(n) ==
    {q \in [1..n -> 1..n] : \A i, j \in 1..n : q[i] = q[j] => i = j}

(***************************************************************************)
(* Entities (src/app/NER.py, dataclass Entity)                             *)
(***************************************************************************)
MaxEnts == 3      \* longest candidate list
MaxPos == 4       \* text offsets are 0..MaxPos

\* A text is a sequence of characters; upper-case letters are distinct
\* characters and str.lower() maps them to their lower-case form.
TextsOfLen(n) ==
    IF n = 1 THEN {<<"a">>, <<"A">>}
    ELSE {[i \in 1..n |-> IF i = 1 THEN "a" ELSE "b"]}

LowerChar(c) ==
    CASE c = "A" -> "a" [] c = "B" -> "b" [] c = "C" -> "c" [] c = "D" -> "d"
      [] c = "E" -> "e" [] c = "F" -> "f" [] c = "G" -> "g" [] c = "H" -> "h"
      [] c = "I" -> "i" [] c = "J" -> "j" [] c = "K" -> "k" [] c = "L" -> "l"
      [] c = "M" -> "m" [] c = "N" -> "n" [] c = "O" -> "o" [] c = "P" -> "p"
      [] c = "Q" -> "q" [] c = "R" -> "r" [] c = "S" -> "s" [] c = "T" -> "t"
      [] c = "U" -> "u" [] c = "V" -> "v" [] c = "W" -> "w" [] c = "X" -> "x"
      [] c = "Y" -> "y" [] c = "Z" -> "z"
      [] OTHER -> c

Lower(t) == [i \in 1..Len(t) |-> LowerChar(t[i])]

\* score: float | None.  <<>> is None, <<n>> the float n.
ScoreValues == {<<>>, <<90>>}

Spans == {<<s, e>> : s \in 0..MaxPos, e \in 0..MaxPos}

CandidateSpans == {sp \in Spans : sp[1] < sp[2]}

\* The text of a candidate is the slice text[start:end] of the document
\* (gazetteer_ner, natasha_ner): it is as long as its span.
Entity ==
    UNION { [text : TextsOfLen(sp[2] - sp[1]), span : {sp}, score : ScoreValues,
             source : {"gazetteer"}] : sp \in CandidateSpans }

\* key = (e.text.lower(), e.span, e.source)
Key(e) == <<Lower(e.text), e.span, e.source>>

RECURSIVE by_keyKeepsFirst(_, _)
by_keyKeepsFirst(ents, k) ==
    IF k = 0 THEN <<>>
    ELSE LET d == by_keyKeepsFirst(ents, k - 1)
         IN  IF \E i \in 1..Len(d) : Key(d[i]) = Key(ents[k]) THEN d
             ELSE Append(d, ents[k])

\* by_key[key] = e for every e of the list, in order.  A Python dict keeps a
\* key at the position of its first insertion and overwrites the value:
\* list(by_key.values()) after the first k candidates.
RECURSIVE by_key(_, _)
by_key(ents, k) ==
    IF k = 0 THEN <<>>
    ELSE LET d == by_key(ents, k - 1)
             e == ents[k]
             key == Key(e)
             hits == {i \in 1..Len(d) : Key(d[i]) = key}
         IN  IF hits = {} THEN Append(d, e)
             ELSE [d EXCEPT ![CHOOSE i \in hits : TRUE] = e]

\* the sort key (e.span[0], -e.span[1]), compared as Python compares tuples
SortKeyLess(a, b) ==
    \/ a.span[1] < b.span[1]
    \/ a.span[1] = b.span[1] /\ (0 - a.span[2]) < (0 - b.span[2])

\* e put into an already sorted list behind every element that is not greater
\* (list.sort is stable)
InsertSorted(sorted, e) ==
    LET later == {i \in 1..Len(sorted) : SortKeyLess(e, sorted[i])}
        pos == IF later = {} THEN Len(sorted) + 1
               ELSE CHOOSE i \in later : \A j \in later : i <= j
    IN  SubSeq(sorted, 1, pos - 1) \o <<e>> \o SubSeq(sorted, pos, Len(sorted))

RECURSIVE SortPrefix(_, _)
SortPrefix(ents, k) ==
    IF k = 0 THEN <<>> ELSE InsertSorted(SortPrefix(ents, k - 1), ents[k])

NoSort(ents) == ents

\* ents.sort(key=lambda e: (e.span[0], -e.span[1]))
sort_entities(ents) == SortPrefix(ents, Len(ents))

OverlapTouching(e, r) == e.span[1] <= r.span[2] /\ r.span[1] <= e.span[2]

\* if (s1 < e2 and s2 < e1)
Overlap(e, r) == e.span[1] < r.span[2] /\ r.span[1] < e.span[2]

\* x.score or 0.0
ScoreOrZero(x) == IF x.score = <<>> THEN 0 ELSE x.score[1]

\* quality(x) = (x.score or 0.0, len(x.text))
quality(x) == <<ScoreOrZero(x), Len(x.text)>>

QualityGreaterByScore(e, r) == quality(e)[1] > quality(r)[1]

QualityGreaterOrEqual(e, r) ==
    \/ quality(e)[1] > quality(r)[1]
    \/ quality(e)[1] = quality(r)[1] /\ quality(e)[2] >= quality(r)[2]

\* quality(e) > quality(r): tuples compare lexicographically
QualityGreater(e, r) ==
    \/ quality(e)[1] > quality(r)[1]
    \/ quality(e)[1] = quality(r)[1] /\ quality(e)[2] > quality(r)[2]

\* result.remove(r): the first element equal to r goes
RemoveFirst(res, r) ==
    LET at == {i \in 1..Len(res) : res[i] = r}
    IN  IF at = {} THEN res
        ELSE RemoveAt(res, CHOOSE i \in at : \A j \in at : i <= j)

ResolveStepKeepsLoser(res, e) ==
    LET hits == {i \in 1..Len(res) : Overlap(e, res[i])}
    IN  IF hits = {} THEN Append(res, e)
        ELSE LET r == res[CHOOSE i \in hits : \A j \in hits : i <= j]
             IN  IF QualityGreater(e, r) THEN Append(RemoveFirst(res, r), e)
                 ELSE IF \E i \in hits : res[i] = e THEN res
                 ELSE Append(res, e)

ResolveStepInsertFront(res, e) ==
    LET hits == {i \in 1..Len(res) : Overlap(e, res[i])}
    IN  IF hits = {} THEN Append(res, e)
        ELSE LET r == res[CHOOSE i \in hits : \A j \in hits : i <= j]
             IN  IF QualityGreater(e, r) THEN <<e>> \o RemoveFirst(res, r)
                 ELSE res

\* one pass of "for e in ents": e is compared with the first accepted span it
\* overlaps (break after it); it replaces that span, is dropped, or is appended
ResolveStep(res, e) ==
    LET hits == {i \in 1..Len(res) : Overlap(e, res[i])}
    IN  IF hits = {} THEN Append(res, e)
        ELSE LET r == res[CHOOSE i \in hits : \A j \in hits : i <= j]
             IN  IF QualityGreater(e, r) THEN Append(RemoveFirst(res, r), e)
                 ELSE res

\* the accepted list after the first k candidates of the sorted list
RECURSIVE ResolvePrefix(_, _)
ResolvePrefix(ents, k) ==
    IF k = 0 THEN <<>> ELSE ResolveStep(ResolvePrefix(ents, k - 1), ents[k])

\* def merge_entities(entities)
merge_entities(es) ==
    LET ents == sort_entities(by_key(es, Len(es)))
    IN  ResolvePrefix(ents, Len(ents))

(***************************************************************************)
(* Specification of the span resolver: the candidate list is any list of   *)
(* at most MaxEnts entities, and the call resolves it.                     *)
(***************************************************************************)
\* Scenario B of the specification: (score 90, length 5) at [0,5) and
\* (score 95, length 8) at [2,10).
ScenarioB ==
    << [text |-> <<"a", "b", "c", "d", "e">>, span |-> <<0, 5>>,
        score |-> <<90>>, source |-> "gazetteer"],
       [text |-> <<"c", "d", "e", "f", "g", "h", "i", "j">>, span |-> <<2, 10>>,
        score |-> <<95>>, source |-> "gazetteer"] >>

MergeInit ==
    /\ \/ \E n \in 0..MaxEnts : entities \in [1..n -> Entity]
       \/ entities = ScenarioB
    /\ result = <<>>
    /\ m_ents = <<>>
    /\ result_after = <<>>
    /\ m_pc = "start"
    /\ GraphIdle
    /\ OptIdle
    /\ NerIdle
    /\ QnIdle
    /\ NormIdle
    /\ HandlerIdle

\* the local list result after each of the first k candidates of the scan
RECURSIVE ResultAfter(_, _)
ResultAfter(sc, k) ==
    IF k = 0 THEN <<>>
    ELSE LET p == ResultAfter(sc, k - 1)
         IN  Append(p, ResolveStep(IF k = 1 THEN <<>> ELSE p[k - 1], sc[k]))

\* result = merge_entities(entities): the list passed is only read (ents is a
\* new list, the sort is on ents)
Resolve ==
    /\ m_pc = "start"
    /\ m_ents' = sort_entities(by_key(entities, Len(entities)))
    /\ result_after' = ResultAfter(m_ents', Len(m_ents'))
    /\ result' = ResolvePrefix(m_ents', Len(m_ents'))
    /\ m_pc' = "done"
    /\ UNCHANGED <<entities, graphVars, optVars, nerVars, qnVars, normVars,
                   handlerVars>>

MergeNext == Resolve

SpecMerge == MergeInit /\ [][MergeNext]_vars

\* Two half-open intervals intersect: not (s1 < e2 and s2 < e1) is the
\* non-overlap of the specification's ResolvedSpanSet.
Intersects(sp1, sp2) == sp1[1] < sp2[2] /\ sp2[1] < sp1[2]

\* The deduplicated, sorted candidates the resolution loop has scanned.
Scanned == m_ents

\* The accepted lists of the resolution loop: AcceptedLists(sc)[k] is the
\* list after the first k candidates of the scan.
AcceptedLists(sc) ==
    [k \in 0..Len(sc) |-> IF k = 0 THEN <<>> ELSE result_after[k]]

\* Every span that was in the accepted list at some point of the loop.
EverAccepted == UNION {Range(a) : a \in Range(result_after)}

\* C1: no two distinct spans of the list merge_entities returns overlap.
C1_NonOverlap ==
    m_pc = "done" =>
        \A i, j \in 1..Len(result) :
            i # j => ~Intersects(result[i].span, result[j].span)

\* A run where a winning candidate replaced the accepted span it overlapped
\* and at least two spans are in the result.
C1_Witness ==
    /\ m_pc = "done"
    /\ Len(result) >= 2
    /\ \E k \in 1..Len(entities) : entities[k] \notin Range(result)
    /\ \E k \in 1..Len(Scanned) :
          LET before == ResolvePrefix(Scanned, k - 1)
          IN  /\ \E i \in 1..Len(before) :
                    Intersects(Scanned[k].span, before[i].span)
              /\ Scanned[k] \in Range(ResolvePrefix(Scanned, k))

\* C7 as claimed: every input candidate that is absent from the result
\* overlaps at least one span of the result (the result is maximal).
C7_Maximal ==
    m_pc = "done" =>
        \A k \in 1..Len(entities) :
            entities[k] \notin Range(result) =>
                \E r \in Range(result) : Intersects(entities[k].span, r.span)

\* C7 as amended: every input candidate that is absent from the result
\* overlaps at least one span that was accepted at some point of the
\* resolution (a span of the result, or one a later candidate replaced).
C7_AbsentOverlapsAccepted ==
    m_pc = "done" =>
        LET ever == EverAccepted
        IN  \A k \in 1..Len(entities) :
                entities[k] \notin Range(result) =>
                    \E r \in ever : Intersects(entities[k].span, r.span)

\* A candidate lost to an accepted span that a later candidate replaced, and
\* nothing in the result overlaps it.
C7_Witness ==
    /\ m_pc = "done"
    /\ \E k \in 1..Len(entities) :
          /\ entities[k] \notin Range(result)
          /\ \A r \in Range(result) : ~Intersects(entities[k].span, r.span)
          /\ \E r \in EverAccepted \ Range(result) :
                Intersects(entities[k].span, r.span)

\* C8: the list merge_entities returns is ordered by ascending start offset.
C8_AscendingStart ==
    m_pc = "done" =>
        \A i, j \in 1..Len(result) :
            i < j => result[i].span[1] <= result[j].span[1]

\* A later candidate replaced an accepted span and was appended behind
\* another accepted span.
C8_Witness ==
    /\ m_pc = "done"
    /\ Len(result) >= 2
    /\ result[Len(result)] \notin Range(ResolvePrefix(Scanned, Len(Scanned) - 1))
    /\ Len(ResolvePrefix(Scanned, Len(Scanned) - 1)) = Len(result)

\* The position in the accepted list of the first span candidate e overlaps,
\* 0 when it overlaps none.
FirstOverlapped(before, e) ==
    LET hits == {i \in 1..Len(before) : Intersects(e.span, before[i].span)}
    IN  IF hits = {} THEN 0 ELSE CHOOSE i \in hits : \A j \in hits : i <= j

\* The (score or 0, text length) of e is not strictly greater than that of r
\* in lexicographic order.
NotBetter(e, r) ==
    ~(\/ ScoreOrZero(e) > ScoreOrZero(r)
      \/ ScoreOrZero(e) = ScoreOrZero(r) /\ Len(e.text) > Len(r.text))

\* C19: a candidate that overlaps an accepted span is compared only with the
\* first accepted span r it overlaps; it replaces r iff its (score or 0,
\* text length) is strictly greater in lexicographic order, and is dropped
\* (r stays) otherwise.  Scenario B resolves to [2,10) alone.
C19_FirstOverlapQuality ==
    m_pc = "done" =>
        LET sc == Scanned
            acc == AcceptedLists(sc)
        IN  /\ \A k \in 1..Len(sc) :
                  LET e == sc[k]
                      before == acc[k - 1]
                      after == acc[k]
                      h == FirstOverlapped(before, e)
                  IN  h # 0 =>
                        IF NotBetter(e, before[h])
                        THEN after = before
                        ELSE /\ after[Len(after)] = e
                             /\ Len(after) = Len(before)
                             /\ Range(after) = (Range(before) \ {before[h]}) \cup {e}
                             /\ before[h] # e
            /\ acc[Len(sc)] = result
            /\ result = merge_entities(entities)
            /\ entities = ScenarioB => result = <<ScenarioB[2]>>

\* A candidate overlapped an accepted span of the same score and replaced
\* it because its text is longer; the result holds it and not the span it
\* replaced.
C19_Witness ==
    /\ m_pc = "done"
    /\ \E k \in 1..Len(Scanned) :
          LET e == Scanned[k]
              before == AcceptedLists(Scanned)[k - 1]
              h == FirstOverlapped(before, e)
          IN  /\ h # 0
              /\ ScoreOrZero(e) = ScoreOrZero(before[h])
              /\ Len(e.text) > Len(before[h].text)
              /\ e \in Range(result)
              /\ before[h] \notin Range(result)

\* Scenario B has been resolved.
ScenarioBResolved ==
    /\ m_pc = "done"
    /\ entities = ScenarioB
    /\ Len(result) = 1
    /\ result[1].span = <<2, 10>>

\* C20: a candidate that loses a quality comparison never appears in the
\* result, also when the accepted span that beat it is later replaced.
C20_LoserStaysOut ==
    m_pc = "done" =>
        LET sc == Scanned
            acc == AcceptedLists(sc)
        IN  \A k \in 1..Len(sc) :
                LET h == FirstOverlapped(acc[k - 1], sc[k])
                IN  (h # 0 /\ NotBetter(sc[k], acc[k - 1][h])) =>
                        sc[k] \notin Range(result)

\* A candidate lost to an accepted span, a third candidate replaced that
\* span, and the result leaves the loser's region uncovered.
C20_Witness ==
    /\ m_pc = "done"
    /\ LET sc == Scanned
           acc == AcceptedLists(sc)
       IN  /\ Len(sc) = 3
           /\ \E k \in 1..2 :
                 LET h == FirstOverlapped(acc[k - 1], sc[k])
                 IN  /\ h # 0
                     /\ NotBetter(sc[k], acc[k - 1][h])
                     /\ acc[k - 1][h] \notin Range(result)
                     /\ \E j \in (k + 1)..3 :
                           LET g == FirstOverlapped(acc[j - 1], sc[j])
                           IN  /\ g # 0
                               /\ acc[j - 1][g] = acc[k - 1][h]
                               /\ ~NotBetter(sc[j], acc[j - 1][g])
                     /\ \A r \in Range(result) : ~Intersects(sc[k].span, r.span)

\* natasha_ner: Entity(text=text[span.start:span.stop], span=...,
\* canonical=..., source="natasha"); the score keeps its default, None
NatashaEntity ==
    UNION { [text : TextsOfLen(sp[2] - sp[1]), span : {sp}, score : {<<>>},
             source : {"natasha"}] : sp \in CandidateSpans }

\* a.span and b.span give the same sort key (e.span[0], -e.span[1])
SameSortKey(a, b) == ~SortKeyLess(a, b) /\ ~SortKeyLess(b, a)

SortOutcomesAnyTieOrder(ents) ==
    { [i \in 1..Len(ents) |-> ents[p[i]]] :
        p \in {q \in IndexOrders(Len(ents)) :
                  \A i, j \in 1..Len(ents) :
                      i < j => ~SortKeyLess(ents[q[j]], ents[q[i]])} }

\* ents.sort(key=lambda e: (e.span[0], -e.span[1])) by its contract: every
\* list list.sort may leave in ents.  It holds the elements of ents in
\* ascending order of the key, and elements of equal key keep the order
\* they had (list.sort is stable).
SortOutcomes(ents) ==
    { [i \in 1..Len(ents) |-> ents[p[i]]] :
        p \in {q \in IndexOrders(Len(ents)) :
                  \A i, j \in 1..Len(ents) :
                      i < j => /\ ~SortKeyLess(ents[q[j]], ents[q[i]])
                               /\ SameSortKey(ents[q[i]], ents[q[j]]) => q[i] < q[j]} }

\* The candidate lists of the two-call specification: gazetteer and natasha
\* candidates, so that two candidates of one span can differ in their key.
MergeTwiceInit ==
    /\ \E n \in 0..MaxEnts : entities \in [1..n -> Entity \cup NatashaEntity]
    /\ result = <<>>
    /\ m_ents = <<>>
    /\ result_after = <<>>
    /\ m_pc = "start"
    /\ GraphIdle
    /\ OptIdle
    /\ NerIdle
    /\ QnIdle
    /\ NormIdle
    /\ HandlerIdle

\* result = merge_entities(entities), the sorted list being any list the
\* contract of list.sort allows; the list passed is only read
ResolveFirst ==
    /\ m_pc = "start"
    /\ \E ents \in SortOutcomes(by_key(entities, Len(entities))) :
          /\ m_ents' = ents
          /\ result_after' = ResultAfter(ents, Len(ents))
          /\ result' = ResolvePrefix(ents, Len(ents))
    /\ m_pc' = "done"
    /\ UNCHANGED <<entities, graphVars, optVars, nerVars, qnVars, normVars,
                   handlerVars>>

\* merge_entities called once more with the list the first call was given
ResolveAgain ==
    /\ m_pc = "done"
    /\ \E ents \in SortOutcomes(by_key(entities, Len(entities))) :
          result' = ResolvePrefix(ents, Len(ents))
    /\ m_pc' = "again"
    /\ UNCHANGED <<entities, m_ents, result_after, graphVars, optVars, nerVars,
                   qnVars, normVars, handlerVars>>

MergeTwiceNext == ResolveFirst \/ ResolveAgain

SpecMergeTwice == MergeTwiceInit /\ [][MergeTwiceNext]_vars

\* The stable sort leaves one list, the one sort_entities builds.
OneSortOutcome ==
    SortOutcomes(by_key(entities, Len(entities)))
        = {sort_entities(by_key(entities, Len(entities)))}

C21_LastPerKey ==
    m_pc = "done" =>
        /\ \A k \in 1..Len(m_ents) :
              LET same == {i \in 1..Len(entities) : Key(entities[i]) = Key(m_ents[k])}
              IN  /\ same # {}
                  /\ m_ents[k] = entities[CHOOSE i \in same : \A j \in same : j <= i]
        /\ \A k, l \in 1..Len(m_ents) : Key(m_ents[k]) = Key(m_ents[l]) => k = l
        /\ \A i \in 1..Len(entities) :
              \E k \in 1..Len(m_ents) : Key(m_ents[k]) = Key(entities[i])

\* Two candidates of the input had the same key, the earlier one with the
\* higher score: the later one was passed on, the earlier one was not.
C21_Witness ==
    /\ m_pc = "done"
    /\ \E i, j \in 1..Len(entities) :
          /\ i < j
          /\ Key(entities[i]) = Key(entities[j])
          /\ entities[i].score = <<90>>
          /\ entities[j].score = <<>>
          /\ entities[j] \in Range(m_ents)
          /\ entities[i] \notin Range(m_ents)

\* merge_entities called on the list the first call returned
ResolveResult ==
    /\ m_pc = "done"
    /\ result' = merge_entities(result)
    /\ m_pc' = "remerged"
    /\ UNCHANGED <<entities, m_ents, result_after, graphVars, optVars, nerVars,
                   qnVars, normVars, handlerVars>>

MergeFixedNext == Resolve \/ ResolveResult

SpecMergeFixed == MergeInit /\ [][MergeFixedNext]_vars

\* C28: merge_entities applied to its own result returns that result (same
\* spans, same order), and every span of a result is one of the candidates
\* the first call was given.
C28_FixedPoint ==
    /\ [][m_pc = "done" => result' = result]_vars
    /\ [](\A k \in 1..Len(result) : result[k] \in Range(entities))

\* A result of two spans has been resolved again; the first call had
\* reordered its candidates and had left one of them out.
C28_Witness ==
    /\ m_pc = "remerged"
    /\ Len(result) = 2
    /\ Len(m_ents) = 3
    /\ m_ents # by_key(entities, Len(entities))

(***************************************************************************)
(* Fuzzy span matcher (src/app/NER.py, gazetteer_ner)                      *)
(*                                                                         *)
(* A text is a sequence of characters.  The tokenizer (razdel) and the     *)
(* similarity ratio (rapidfuzz) are libraries: on words separated by       *)
(* spaces the tokenizer yields the maximal runs of non-space characters    *)
(* with their offsets, and fuzz.ratio(a, b) is                             *)
(* 100 * 2 * LCS(a, b) / (len(a) + len(b)), kept exact here as a fraction. *)
(***************************************************************************)
MaxTokens == 3    \* most tokens of a generated text
MaxWindow == 6    \* range(i+1, min(i+6, len(tokens))+1): j - i is at most 6

Max(a, b) == IF a >= b THEN a ELSE b

Min(a, b) == IF a <= b THEN a ELSE b

\* The words and the runs of spaces a generated text is made of.
Words == {<<"a">>, <<"A">>, <<"a", "b">>}

Gaps == {1, 2}

Spaces(n) == [i \in 1..n |-> " "]

\* The text made of the first k words, gs[i] spaces before word i (one less
\* before the first word).
RECURSIVE BuildText(_, _, _)
BuildText(ws, gs, k) ==
    IF k = 0 THEN <<>>
    ELSE BuildText(ws, gs, k - 1)
         \o Spaces(IF k = 1 THEN gs[k] - 1 ELSE gs[k]) \o ws[k]

GeneratedTexts ==
    UNION { { BuildText(ws, gs, n) : ws \in [1..n -> Words], gs \in [1..n -> Gaps] } :
            n \in 0..MaxTokens }

\* Scenario A of the specification, and texts of six and of seven tokens.
ScenarioAText == <<"t", "h", "e", " ", "I", "r", "o", "n", " ", "H", "a", "n", "d", " ", "c", "a", "p", "t", "a", "i", "n", " ", "s", "p", "o", "k", "e">>

ScenarioAName == <<"I", "r", "o", "n", " ", "H", "a", "n", "d">>

SixTokensText == <<"a", " ", "a", " ", "a", " ", "a", " ", "a", " ", "a">>

SevenTokensText == SixTokensText \o <<" ", "a">>

\* The gazetteers tried: lists of names in their stored form.
Gazetteers ==
    { <<>>,
      << <<"A">> >>,
      << <<"a", "b">>, <<"A">> >>,
      << <<"A", " ", "a">>, <<"A", "b">> >> }

\* The cutoffs tried (a ratio that equals one of them is computed exactly by
\* the floating-point arithmetic of the library).
Cutoffs == {0, 50, 82, 100}

\* list(razdel_tokenize(text)): the maximal runs of non-space characters,
\* with start and stop offsets (0-based, stop exclusive)
TokenStarts(text) ==
    {i \in 1..Len(text) : text[i] # " " /\ (i = 1 \/ text[i - 1] = " ")}

TokenStop(text, s) ==
    CHOOSE j \in s..Len(text) :
        /\ \A m \in s..j : text[m] # " "
        /\ j = Len(text) \/ text[j + 1] = " "

RECURSIVE SortedSeq(_)
SortedSeq(S) ==
    IF S = {} THEN <<>>
    ELSE LET m == CHOOSE x \in S : \A y \in S : x <= y
         IN  <<m>> \o SortedSeq(S \ {m})

razdel_tokenize(text) ==
    LET starts == SortedSeq(TokenStarts(text))
    IN  [k \in 1..Len(starts) |->
            LET s == starts[k]
                e == TokenStop(text, s)
            IN  [text |-> SubSeq(text, s, e), start |-> s - 1, stop |-> e]]

\* " ".join(lowered_tokens[i:j]) for the tokens i..j (1-based, inclusive)
RECURSIVE JoinLowered(_, _, _)
JoinLowered(tokens, i, j) ==
    IF j < i THEN <<>>
    ELSE IF j = i THEN Lower(tokens[i].text)
    ELSE JoinLowered(tokens, i, j - 1) \o <<" ">> \o Lower(tokens[j].text)

\* The length of a longest common subsequence, row by row.
RECURSIVE LcsRowUpTo(_, _, _, _)
LcsRowUpTo(prev, c, b, j) ==
    IF j = 0 THEN <<>>
    ELSE LET r == LcsRowUpTo(prev, c, b, j - 1)
             left == IF j = 1 THEN 0 ELSE r[j - 1]
             diag == IF j = 1 THEN 0 ELSE prev[j - 1]
         IN  Append(r, IF c = b[j] THEN diag + 1 ELSE Max(prev[j], left))

RECURSIVE LcsRows(_, _, _)
LcsRows(a, b, i) ==
    IF i = 0 THEN [j \in 1..Len(b) |-> 0]
    ELSE LcsRowUpTo(LcsRows(a, b, i - 1), a[i], b, Len(b))

Lcs(a, b) ==
    IF Len(a) = 0 \/ Len(b) = 0 THEN 0 ELSE LcsRows(a, b, Len(a))[Len(b)]

ratioOfShorter(s1, s2) ==
    IF Len(s1) + Len(s2) = 0 THEN [num |-> 100, den |-> 1]
    ELSE [num |-> 200 * Lcs(s1, s2), den |-> 2 * Min(Len(s1), Len(s2))]

\* fuzz.ratio(s1, s2) as the fraction num / den
ratio(s1, s2) ==
    IF Len(s1) + Len(s2) = 0 THEN [num |-> 100, den |-> 1]
    ELSE [num |-> 200 * Lcs(s1, s2), den |-> Len(s1) + Len(s2)]

ReachesBelow(score, cutoff) == score.num <= cutoff * score.den

\* if score >= cutoff
Reaches(score, cutoff) == score.num >= cutoff * score.den

\* for j in range(i+1, min(i+6, len(tokens))+1), 0-based i: the windows
\* tokens[i:j] that start at token i (1-based here) stop at tokens
\* i .. min(i + 5, n)
WindowStops(i, n) == i..Min(i + MaxWindow - 1, n)

CandidateLowered(text, tokens, i, j, name, score) ==
    [text |-> JoinLowered(tokens, i, j),
     span |-> <<tokens[i].start, tokens[j].stop>>,
     canonical |-> name, score |-> score, source |-> "gazetteer"]

\* Entity(text=orig_fragment, span=(start, end), canonical=name,
\*        score=float(score), source="gazetteer")
Candidate(text, tokens, i, j, name, score) ==
    [text |-> SubSeq(text, tokens[i].start + 1, tokens[j].stop),
     span |-> <<tokens[i].start, tokens[j].stop>>,
     canonical |-> name, score |-> score, source |-> "gazetteer"]

\* for name in GAZETTEER: the candidates of the window i..j for the first k
\* names
RECURSIVE ForNames(_, _, _, _, _, _, _)
ForNames(text, tokens, cutoff, gaz, i, j, k) ==
    IF k = 0 THEN <<>>
    ELSE LET score == ratio(JoinLowered(tokens, i, j), Lower(gaz[k]))
             before == ForNames(text, tokens, cutoff, gaz, i, j, k - 1)
         IN  IF Reaches(score, cutoff)
             THEN Append(before, Candidate(text, tokens, i, j, gaz[k], score))
             ELSE before

\* for j in ...: the candidates of the windows that start at i and stop at
\* or before j
RECURSIVE ForStops(_, _, _, _, _, _)
ForStops(text, tokens, cutoff, gaz, i, j) ==
    IF j \notin WindowStops(i, Len(tokens)) THEN <<>>
    ELSE ForStops(text, tokens, cutoff, gaz, i, j - 1)
         \o ForNames(text, tokens, cutoff, gaz, i, j, Len(gaz))

\* for i in range(len(tokens)): the candidates of the windows that start at
\* or before token i
RECURSIVE ForStarts(_, _, _, _, _)
ForStarts(text, tokens, cutoff, gaz, i) ==
    IF i = 0 THEN <<>>
    ELSE LET stops == WindowStops(i, Len(tokens))
         IN  ForStarts(text, tokens, cutoff, gaz, i - 1)
             \o ForStops(text, tokens, cutoff, gaz, i,
                         CHOOSE j \in stops : \A m \in stops : m <= j)

\* def gazetteer_ner(text, cutoff)
gazetteer_ner(text, cutoff, gaz) ==
    LET tokens == razdel_tokenize(text)
    IN  ForStarts(text, tokens, cutoff, gaz, Len(tokens))

(***************************************************************************)
(* Specification of the matcher: a generated text or one of the fixed      *)
(* texts, a gazetteer and a cutoff; the call returns its candidates.       *)
(***************************************************************************)
NerInit ==
    /\ \/ /\ ner_text \in GeneratedTexts
          /\ GAZETTEER \in Gazetteers
       \/ /\ ner_text = ScenarioAText
          /\ GAZETTEER = <<ScenarioAName>>
       \/ /\ ner_text \in {SixTokensText, SevenTokensText}
          /\ GAZETTEER = <<SixTokensText>>
    /\ ner_cutoff \in Cutoffs \cup {90}
    /\ ner_ents = <<>>
    /\ ner_pc = "start"
    /\ MergeIdle
    /\ GraphIdle
    /\ OptIdle
    /\ QnIdle
    /\ NormIdle
    /\ HandlerIdle

GazetteerNer ==
    /\ ner_pc = "start"
    /\ ner_ents' = gazetteer_ner(ner_text, ner_cutoff, GAZETTEER)
    /\ ner_pc' = "done"
    /\ UNCHANGED <<ner_text, ner_cutoff, GAZETTEER, mergeVars, graphVars,
                   optVars, qnVars, normVars, handlerVars>>

NerNext == GazetteerNer

SpecNer == NerInit /\ [][NerNext]_vars

(***************************************************************************)
(* Properties of the matcher                                               *)
(***************************************************************************)
\* The tokens of the argument text, the windows the matcher is specified
\* to score (tokens i..j, at most five tokens) and the windows its loop
\* visits (at most six tokens).
NerTokens == razdel_tokenize(ner_text)

SpecifiedWindows(n) == {w \in (1..n) \X (1..n) : w[1] <= w[2] /\ w[2] <= w[1] + 4}

VisitedWindows(n) == {w \in (1..n) \X (1..n) : w[1] <= w[2] /\ w[2] <= w[1] + 5}

\* The lower-case fragment of a returned candidate: its tokens joined by
\* single spaces.
FragmentOf(e) ==
    LET ts == razdel_tokenize(e.text) IN JoinLowered(ts, 1, Len(ts))

\* C14 as claimed: with cutoff = 100 the text of every returned candidate is
\* identical, ignoring case, to the gazetteer entry it was matched to.
C14_ExactMatchText ==
    (ner_pc = "done" /\ ner_cutoff = 100) =>
        \A k \in 1..Len(ner_ents) :
            Lower(ner_ents[k].text) = Lower(ner_ents[k].canonical)

\* C14 as amended: with cutoff = 100 the lower-case fragment of every
\* returned candidate (its tokens joined by single spaces) is identical to
\* the lower-case form of the entry it was matched to, every window whose
\* fragment is identical to an entry's lower-case form is returned, and the
\* text of a candidate is identical to its entry, ignoring case, when its
\* tokens are one space apart in the text.
C14_ExactMatchFragment ==
    (ner_pc = "done" /\ ner_cutoff = 100) =>
        LET tokens == NerTokens
        IN  /\ \A k \in 1..Len(ner_ents) :
                  LET e == ner_ents[k]
                  IN  /\ FragmentOf(e) = Lower(e.canonical)
                      /\ Len(e.text) = Len(FragmentOf(e)) =>
                            Lower(e.text) = Lower(e.canonical)
            /\ \A w \in VisitedWindows(Len(tokens)) : \A g \in 1..Len(GAZETTEER) :
                  JoinLowered(tokens, w[1], w[2]) = Lower(GAZETTEER[g]) =>
                      \E k \in 1..Len(ner_ents) :
                          /\ ner_ents[k].span = <<tokens[w[1]].start, tokens[w[2]].stop>>
                          /\ ner_ents[k].canonical = GAZETTEER[g]

\* With cutoff = 100 a candidate was returned whose tokens are two spaces
\* apart in the text: its text is not its entry, whatever the case.
C14_Witness ==
    /\ ner_pc = "done"
    /\ ner_cutoff = 100
    /\ \E k \in 1..Len(ner_ents) :
          /\ Lower(ner_ents[k].text) # Lower(ner_ents[k].canonical)
          /\ FragmentOf(ner_ents[k]) = Lower(ner_ents[k].canonical)

\* C15: for the same text and gazetteer, the candidates returned at a
\* higher cutoff are among those returned at a lower one, in the same
\* order: raising the cutoff never increases their number.
C15_CutoffMonotone ==
    ner_pc = "done" =>
        \A c \in Cutoffs :
            c >= ner_cutoff =>
                LET higher == gazetteer_ner(ner_text, c, GAZETTEER)
                IN  /\ Len(higher) <= Len(ner_ents)
                    /\ higher = SelectSeq(ner_ents, LAMBDA e : e \in Range(higher))

\* Raising the cutoff from 50 to 100 removed some candidates and kept others.
C15_Witness ==
    /\ ner_pc = "done"
    /\ ner_cutoff = 50
    /\ LET higher == gazetteer_ner(ner_text, 100, GAZETTEER)
       IN  Len(higher) > 0 /\ Len(higher) < Len(ner_ents)

\* C16: a candidate is returned for exactly the (window, entry) pairs whose
\* ratio is at least the cutoff, one per pair; its canonical is the entry as
\* stored, its text the slice of the original text from the start of the
\* window's first token to the end of its last, its span that interval
\* (start < end), its score the ratio and its source "gazetteer".  Scenario
\* A returns the single candidate "Iron Hand" with score 100.
C16_EmitsAtOrAboveCutoff ==
    ner_pc = "done" =>
        LET tokens == NerTokens
            pairs == {p \in VisitedWindows(Len(tokens)) \X (1..Len(GAZETTEER)) :
                        LET a == JoinLowered(tokens, p[1][1], p[1][2])
                            b == Lower(GAZETTEER[p[2]])
                        IN  200 * Lcs(a, b) >= ner_cutoff * (Len(a) + Len(b))}
            expected(p) ==
                LET a == JoinLowered(tokens, p[1][1], p[1][2])
                    b == Lower(GAZETTEER[p[2]])
                    start == tokens[p[1][1]].start
                    end == tokens[p[1][2]].stop
                IN  [text |-> [m \in 1..(end - start) |-> ner_text[start + m]],
                     span |-> <<start, end>>,
                     canonical |-> GAZETTEER[p[2]],
                     score |-> [num |-> 200 * Lcs(a, b), den |-> Len(a) + Len(b)],
                     source |-> "gazetteer"]
        IN  /\ Range(ner_ents) = {expected(p) : p \in pairs}
            /\ Len(ner_ents) = Cardinality(pairs)
            /\ \A k \in 1..Len(ner_ents) : ner_ents[k].span[1] < ner_ents[k].span[2]
            /\ (ner_text = ScenarioAText /\ ner_cutoff = 90) =>
                  /\ Len(ner_ents) = 1
                  /\ ner_ents[1].text = ScenarioAName
                  /\ ner_ents[1].canonical = ScenarioAName
                  /\ ner_ents[1].score.num = 100 * ner_ents[1].score.den

\* Scenario A has been matched.
C16_Witness ==
    /\ ner_pc = "done"
    /\ ner_text = ScenarioAText
    /\ GAZETTEER = <<ScenarioAName>>
    /\ ner_cutoff = 90
    /\ Len(ner_ents) = 1

\* The tokens of the text that lie inside a span.
TokensIn(span) ==
    {k \in 1..Len(NerTokens) :
        span[1] <= NerTokens[k].start /\ NerTokens[k].stop <= span[2]}

\* C18: no returned candidate covers more than 5 tokens, and every window
\* of 1 to 5 consecutive tokens starting at every index is scored (with a
\* cutoff of 0 every scored window is returned for every entry).
C18_WindowsOfOneToFive ==
    ner_pc = "done" =>
        LET tokens == NerTokens
        IN  /\ \A k \in 1..Len(ner_ents) :
                  Cardinality(TokensIn(ner_ents[k].span)) \in 1..5
            /\ (ner_cutoff = 0 /\ GAZETTEER # <<>>) =>
                  {e.span : e \in Range(ner_ents)}
                    = {<<tokens[w[1]].start, tokens[w[2]].stop>> :
                          w \in SpecifiedWindows(Len(tokens))}

\* What the loop does instead: no returned candidate covers more than 6
\* tokens, and with a cutoff of 0 the returned spans are those of the
\* windows of 1 to 6 consecutive tokens.
WindowsOfOneToSix ==
    ner_pc = "done" =>
        LET tokens == NerTokens
        IN  /\ \A k \in 1..Len(ner_ents) :
                  Cardinality(TokensIn(ner_ents[k].span)) \in 1..6
            /\ (ner_cutoff = 0 /\ GAZETTEER # <<>>) =>
                  {e.span : e \in Range(ner_ents)}
                    = {<<tokens[w[1]].start, tokens[w[2]].stop>> :
                          w \in VisitedWindows(Len(tokens))}

(***************************************************************************)
(* Query normalizer (src/app/rag/query_normalizer.py,                      *)
(* split_and_extract_entities) and its caller (src/app/rag/retriever.py,   *)
(* _get_relevant_documents)                                                *)
(*                                                                         *)
(* The engine's answer is either an exception or a text.  A text is        *)
(* described by what parse_json_markdown makes of it: nothing              *)
(* ("unparseable"), a JSON value that is not an object ("array",           *)
(* "json_null"), or an object with its fields "entities" and "questions".  *)
(* A field is a tagged value: t is "missing", "null", "num", "str" (s its  *)
(* characters) or "list" (items its elements).                             *)
(* A string is the sequence of its characters.  A character is written as  *)
(* itself when it is a printable ASCII character or has an escape ("\t",   *)
(* "\n", "\f", "\r"), and by its code point otherwise: "U+00A0" is the one *)
(* character NO-BREAK SPACE, "U+000B" the one character LINE TABULATION.   *)
(***************************************************************************)
MaxItems == 2

QnStrings ==
    {<<>>, <<" ">>, <<"\n">>, <<"U+3000">>, <<"a">>, <<"\t", "a">>,
     <<"U+00A0", "a">>, <<"a", "U+000B">>,
     <<" ", "a", "\t", "b", " ", "\n">>}

Queries == {<<"a">>, <<"a", " ", "b">>}

SeqsUpTo(S, n) == UNION {[1..k -> S] : k \in 0..n}

\* An element of the list "entities".
EntityItems ==
    [t : {"str"}, s : QnStrings] \cup [t : {"null", "num"}, s : {<<>>}]

EntityFields ==
    [t : {"missing", "null", "num"}, s : {<<>>}, items : {<<>>}]
      \cup [t : {"str"}, s : QnStrings, items : {<<>>}]
      \cup [t : {"list"}, s : {<<>>}, items : SeqsUpTo(EntityItems, MaxItems)]

\* The value of the key "text" of a sub-question.
TextFields ==
    [t : {"missing", "null", "num"}, s : {<<>>}] \cup [t : {"str"}, s : QnStrings]

\* An element of the list "questions": an object, or something else.
QuestionItems ==
    [t : {"dict"}, text : TextFields]
      \cup [t : {"str", "null"}, text : {[t |-> "missing", s |-> <<>>]}]

QuestionFields ==
    [t : {"missing", "null", "num"}, s : {<<>>}, items : {<<>>}]
      \cup [t : {"str"}, s : {<<>>, <<"a">>}, items : {<<>>}]
      \cup [t : {"list"}, s : {<<>>}, items : SeqsUpTo(QuestionItems, MaxItems)]

MissingField == [t |-> "missing", s |-> <<>>, items |-> <<>>]

Responses ==
    [kind : {"raises", "unparseable", "array", "json_null"},
     entities : {MissingField}, questions : {MissingField}]
      \cup [kind : {"object"}, entities : EntityFields, questions : QuestionFields]

\* The characters str.strip() removes: those for which str.isspace() is
\* true.  U+0009..U+000D, U+001C..U+001F, U+0020, U+0085, U+00A0, U+1680,
\* U+2000..U+200A, U+2028, U+2029, U+202F, U+205F and U+3000.
Whitespace ==
    {"\t", "\n", "U+000B", "\f", "\r", "U+001C", "U+001D", "U+001E", "U+001F",
     " ", "U+0085", "U+00A0", "U+1680", "U+2000", "U+2001", "U+2002",
     "U+2003", "U+2004", "U+2005", "U+2006", "U+2007", "U+2008", "U+2009",
     "U+200A", "U+2028", "U+2029", "U+202F", "U+205F", "U+3000"}

\* str.strip(): the string without its leading and trailing whitespace.
strip(s) ==
    LET idx == {k \in 1..Len(s) : s[k] \notin Whitespace}
    IN  IF idx = {} THEN <<>>
        ELSE SubSeq(s, CHOOSE k \in idx : \A m \in idx : k <= m,
                       CHOOSE k \in idx : \A m \in idx : k >= m)

\* The dictionary of lines 57, 63 and 67.
DefaultParsed == [entities |-> <<>>, questions_t |-> "list", questions |-> <<>>]

\* Line 70: the exception of the comprehension over parsed.get("entities",
\* []), "none" if it raises none.  None and a number are not iterable; an
\* element that is not a string has no strip.
EntitiesError(f) ==
    CASE f.t \notin {"missing", "str", "list"} -> "TypeError"
      [] f.t = "list" /\ (\E k \in 1..Len(f.items) : f.items[k].t # "str")
           -> "AttributeError"
      [] OTHER -> "none"

\* Line 70: the list stored under "entities".  A string is iterated
\* character by character.
CleanEntities(f) ==
    LET elems == CASE f.t = "list" -> [k \in 1..Len(f.items) |-> f.items[k].s]
                   [] f.t = "str" -> [k \in 1..Len(f.s) |-> <<f.s[k]>>]
                   [] OTHER -> <<>>
        stripped == [k \in 1..Len(elems) |-> strip(elems[k])]
    IN  SelectSeq(stripped, LAMBDA e : e # <<>>)

\* Lines 71-73: the exception of the loop over parsed["questions"], "none"
\* if it raises none.  The key is present when the field is null or a
\* number, neither of which is iterable; the characters of a string and an
\* element that is not an object have no get; a text that is not a string
\* (None, a number) has no strip.
QuestionsError(f) ==
    CASE f.t \notin {"missing", "str", "list"} -> "TypeError"
      [] f.t = "str" /\ f.s # <<>> -> "AttributeError"
      [] f.t = "list" /\ (\E k \in 1..Len(f.items) :
                              \/ f.items[k].t # "dict"
                              \/ f.items[k].text.t \notin {"missing", "str"})
           -> "AttributeError"
      [] OTHER -> "none"

\* Lines 71-73: the texts of the sub-questions after the loop.
CleanQuestions(f) ==
    IF f.t = "list" THEN [k \in 1..Len(f.items) |-> strip(f.items[k].text.s)]
    ELSE <<>>

\* split_and_extract_entities(user_question) on the engine's answer:
\* [error, parsed]; error is the exception it propagates, "none" when it
\* returns parsed.
split_and_extract_entities(response) ==
    IF response.kind = "raises"
    THEN [error |-> "none", parsed |-> DefaultParsed]
    ELSE IF response.kind # "object"
    THEN [error |-> "none", parsed |-> DefaultParsed]
    ELSE IF EntitiesError(response.entities) # "none"
    THEN [error |-> EntitiesError(response.entities), parsed |-> DefaultParsed]
    ELSE IF QuestionsError(response.questions) # "none"
    THEN [error |-> QuestionsError(response.questions), parsed |-> DefaultParsed]
    ELSE [error |-> "none",
          parsed |-> [entities |-> CleanEntities(response.entities),
                      questions_t |-> response.questions.t,
                      questions |-> CleanQuestions(response.questions)]]

QnInit ==
    /\ qn_question \in Queries
    /\ qn_response \in Responses
    /\ qn_parsed = [entities |-> <<>>, questions_t |-> "missing", questions |-> <<>>]
    /\ qn_questions = <<>>
    /\ qn_error = "none"
    /\ qn_pc = "start"
    /\ MergeIdle
    /\ GraphIdle
    /\ OptIdle
    /\ NerIdle
    /\ NormIdle
    /\ HandlerIdle

\* retriever.py line 157: the call returns a dictionary.
SplitReturns ==
    /\ qn_pc = "start"
    /\ LET r == split_and_extract_entities(qn_response)
       IN  /\ r.error = "none"
           /\ qn_parsed' = r.parsed
    /\ qn_pc' = "returned"
    /\ UNCHANGED <<qn_question, qn_response, qn_questions, qn_error,
                   mergeVars, graphVars, optVars, nerVars, normVars, handlerVars>>

\* retriever.py line 157: the call raises, and so does its caller.
SplitRaises ==
    /\ qn_pc = "start"
    /\ LET r == split_and_extract_entities(qn_response)
       IN  /\ r.error # "none"
           /\ qn_error' = r.error
    /\ qn_pc' = "raised"
    /\ UNCHANGED <<qn_question, qn_response, qn_parsed, qn_questions,
                   mergeVars, graphVars, optVars, nerVars, normVars, handlerVars>>

\* retriever.py line 158: questions = parsed.get("questions", []) +
\* [{"text": query}]; a string cannot be concatenated with a list.
BuildQuestions ==
    /\ qn_pc = "returned"
    /\ IF qn_parsed.questions_t = "str"
       THEN /\ qn_error' = "TypeError"
            /\ qn_pc' = "search_raised"
            /\ UNCHANGED qn_questions
       ELSE /\ qn_questions' = Append(qn_parsed.questions, qn_question)
            /\ qn_pc' = "searching"
            /\ UNCHANGED qn_error
    /\ UNCHANGED <<qn_question, qn_response, qn_parsed,
                   mergeVars, graphVars, optVars, nerVars, normVars, handlerVars>>

QnNext == SplitReturns \/ SplitRaises \/ BuildQuestions

SpecQn == QnInit /\ [][QnNext]_vars

\* A response that cannot be used: the engine raised, the text is not
\* JSON, the JSON is not an object, or a field of the object is null or of
\* the wrong shape.
Unusable(response) ==
    \/ response.kind # "object"
    \/ EntitiesError(response.entities) # "none"
    \/ QuestionsError(response.questions) # "none"
    \/ response.entities.t = "str"
    \/ response.questions.t = "str"

\* C17: split_and_extract_entities propagates no exception caused by the
\* engine's response: it returns a dictionary for every response, with
\* empty entity and question sets for a response that cannot be used, and
\* the retriever goes on to search with the raw query.
C17_NeverPropagates ==
    /\ qn_pc \notin {"raised", "search_raised"}
    /\ (qn_pc \in {"returned", "searching"} /\ Unusable(qn_response)) =>
          /\ qn_parsed.entities = <<>>
          /\ qn_parsed.questions = <<>>
    /\ qn_pc = "searching" => qn_questions[Len(qn_questions)] = qn_question

(***************************************************************************)
(* Graph relevance scorer (src/app/graph/node.py, calculate_graph_metrics) *)
(*                                                                         *)
(* Titles, labels and relationship types are transliterated to ASCII:      *)
(* SSYLKA, RASA are two of the relationship types the query excludes,      *)
(* VRAG is one it lets through, Personazhi_ is a label and Neizvestno a    *)
(* title the query forbids for an interior node.                           *)
(* A score is a float in the code; the model keeps it exact, as a multiple *)
(* of 1 / Unit.                                                            *)
(***************************************************************************)
MaxHops == 2      \* largest max_length tried

RECURSIVE Gcd(_, _)
Gcd(a, b) == IF b = 0 THEN a ELSE Gcd(b, a % b)

RECURSIVE LcmUpTo(_)
LcmUpTo(n) ==
    IF n <= 1 THEN 1 ELSE (LcmUpTo(n - 1) * n) \div Gcd(LcmUpTo(n - 1), n)

\* the common denominator of every 1 / (1 + dist), dist <= max_length
Unit == LcmUpTo(MaxHops + 1)

\* type(r) <> ... : the relationship types the query rules out
ExcludedTypes == {"RASA", "SSYLKA"}

\* labels and titles the query rules out for the interior nodes of a path
NoiseLabels == {"Personazhi_", "Organizacii_Imperiuma"}

PlaceholderTitles == {"Neizvestno", "Neizvesten"}

\* labels(n) of the nodes of the store
Labels(t) == IF t = "N" THEN {"Personazhi_"} ELSE {}

\* The relationships the store may hold; a store holds any subset of them.
StoreEdges ==
    { [src |-> "A", dst |-> "B", type |-> "VRAG"],
      [src |-> "B", dst |-> "A", type |-> "SSYLKA"],
      [src |-> "A", dst |-> "I", type |-> "VRAG"],
      [src |-> "B", dst |-> "I", type |-> "VRAG"],
      [src |-> "A", dst |-> "N", type |-> "VRAG"],
      [src |-> "N", dst |-> "C", type |-> "VRAG"],
      [src |-> "B", dst |-> "C", type |-> "VRAG"],
      [src |-> "B", dst |-> "Neizvestno", type |-> "VRAG"],
      [src |-> "Neizvestno", dst |-> "C", type |-> "VRAG"],
      [src |-> "C", dst |-> "A", type |-> "VRAG"] }

CandidateTitles == {"A", "B", "C"}

\* itertools.combinations(nodes, 2): the pairs (nodes[i], nodes[j]), i < j,
\* in lexicographic order of (i, j)
combinations(ns) ==
    LET P == {p \in (1..Len(ns)) \X (1..Len(ns)) : p[1] < p[2]}
        Rank(p) == Cardinality({q \in P : \/ q[1] < p[1]
                                          \/ q[1] = p[1] /\ q[2] < p[2]}) + 1
    IN  [k \in 1..Cardinality(P) |->
            LET p == CHOOSE q \in P : Rank(q) = k
            IN  <<ns[p[1]], ns[p[2]]>>]

\* The other end of relationship e seen from node t (the pattern -[..]- is
\* undirected).
OtherEnd(e, t) == IF e.src = t THEN e.dst ELSE e.src

\* MATCH p=(a)-[rels*..k]-(..): the paths of exactly k relationships that
\* start at a; Cypher uses no relationship twice in one path.
RECURSIVE PathsFrom(_, _)
PathsFrom(a, k) ==
    IF k = 0 THEN {[path |-> <<a>>, rels |-> <<>>]}
    ELSE UNION { { [path |-> Append(p.path, OtherEnd(e, p.path[Len(p.path)])),
                    rels |-> Append(p.rels, e)] :
                   e \in {f \in graph : /\ f \notin Range(p.rels)
                                        /\ p.path[Len(p.path)] \in {f.src, f.dst}} } :
                 p \in PathsFrom(a, k - 1) }

\* nodes(p)[1..-1]
Interior(path) == SubSeq(path, 2, Len(path) - 1)

\* the WHERE clause of the query
Qualifies(p) ==
    /\ \A i \in 1..Len(p.rels) : p.rels[i].type \notin ExcludedTypes
    /\ \A n \in Range(Interior(p.path)) :
          /\ Labels(n) \cap NoiseLabels = {}
          /\ n \notin PlaceholderTitles

\* The records the query may return for (node1, node2): ORDER BY path_length
\* ASC LIMIT 1 keeps one of the shortest qualifying paths, any of them.
QueryRecords(node1, node2, maxlen) ==
    LET all == UNION { {p \in PathsFrom(node1, k) :
                           p.path[Len(p.path)] = node2 /\ Qualifies(p)} :
                       k \in 1..maxlen }
    IN  {p \in all : \A q \in all : Len(p.rels) <= Len(q.rels)}

PairScoreNoPlusOne(dist) == Unit \div dist

\* score = 1 / (1 + dist)
PairScore(dist) == Unit \div (1 + dist)

NoPathPenalty == 0 - 1

\* node_scores[node] += 0
NoPathScore == 0

\* path_with_rels: node, "-[type]->", node, ..., node
RECURSIVE path_with_rels(_, _, _)
path_with_rels(path_nodes, path_rels, i) ==
    IF i = Len(path_nodes) THEN <<path_nodes[i]>>
    ELSE <<path_nodes[i], "-[" \o path_rels[i].type \o "]->">>
         \o path_with_rels(path_nodes, path_rels, i + 1)

\* paths_between_nodes[(node1, node2)] = pwr, paths_between_nodes[(node2, node1)] = pwr
StorePath(paths, node1, node2, pwr) ==
    [k \in DOMAIN paths \cup {<<node1, node2>>, <<node2, node1>>} |->
        IF k \in {<<node1, node2>>, <<node2, node1>>} THEN pwr ELSE paths[k]]

\* node_scores[node1] += score; node_scores[node2] += score
AddScore(scores, node1, node2, score) ==
    LET once == [scores EXCEPT ![node1] = @ + score]
    IN  [once EXCEPT ![node2] = @ + score]

\* node_scores = {node: 0.0 for node in nodes}
InitialScores(ns) == [t \in Range(ns) |-> 0]

GraphInit ==
    /\ \E n \in 0..Cardinality(CandidateTitles) :
          nodes \in {ns \in [1..n -> CandidateTitles] :
                        \A i, j \in 1..n : ns[i] = ns[j] => i = j}
    /\ max_length \in 1..MaxHops
    /\ graph \in SUBSET StoreEdges
    /\ gm_i = 1
    /\ node_scores = InitialScores(nodes)
    /\ paths_between_nodes = <<>>
    /\ intermediate_nodes = {}
    /\ gm_pc = "loop"
    /\ OrderIdle
    /\ MergeIdle
    /\ OptIdle
    /\ NerIdle
    /\ QnIdle
    /\ NormIdle
    /\ HandlerIdle

PairWithPathKeepsInputTitles ==
    /\ gm_pc = "loop"
    /\ gm_i <= Len(combinations(nodes))
    /\ LET node1 == combinations(nodes)[gm_i][1]
           node2 == combinations(nodes)[gm_i][2]
       IN  \E record \in QueryRecords(node1, node2, max_length) :
              /\ node_scores' = AddScore(node_scores, node1, node2,
                                         PairScore(Len(record.rels)))
              /\ paths_between_nodes' =
                    StorePath(paths_between_nodes, node1, node2,
                              path_with_rels(record.path, record.rels, 1))
              /\ intermediate_nodes' = intermediate_nodes \cup
                    Range(Interior(record.path))
    /\ gm_i' = gm_i + 1
    /\ UNCHANGED <<orderVars, nodes, max_length, graph, gm_pc, mergeVars, optVars,
                   nerVars, qnVars, normVars, handlerVars>>

\* One pass of "for node1, node2 in combinations(nodes, 2)" in which the
\* query returns a record.
PairWithPath ==
    /\ gm_pc = "loop"
    /\ gm_i <= Len(combinations(nodes))
    /\ LET node1 == combinations(nodes)[gm_i][1]
           node2 == combinations(nodes)[gm_i][2]
       IN  \E record \in QueryRecords(node1, node2, max_length) :
              /\ node_scores' = AddScore(node_scores, node1, node2,
                                         PairScore(Len(record.rels)))
              /\ paths_between_nodes' =
                    StorePath(paths_between_nodes, node1, node2,
                              path_with_rels(record.path, record.rels, 1))
              /\ intermediate_nodes' = intermediate_nodes \cup
                    {n \in Range(Interior(record.path)) : n \notin Range(nodes)}
    /\ gm_i' = gm_i + 1
    /\ UNCHANGED <<orderVars, nodes, max_length, graph, gm_pc, mergeVars, optVars,
                   nerVars, qnVars, normVars, handlerVars>>

\* One pass in which the query returns no record: the else branch.
PairWithoutPath ==
    /\ gm_pc = "loop"
    /\ gm_i <= Len(combinations(nodes))
    /\ LET node1 == combinations(nodes)[gm_i][1]
           node2 == combinations(nodes)[gm_i][2]
       IN  /\ QueryRecords(node1, node2, max_length) = {}
           /\ node_scores' = AddScore(node_scores, node1, node2, NoPathScore)
    /\ gm_i' = gm_i + 1
    /\ UNCHANGED <<orderVars, nodes, max_length, graph, paths_between_nodes,
                   intermediate_nodes, gm_pc, mergeVars, optVars, nerVars,
                   qnVars, normVars, handlerVars>>

\* session.run raises (the store is unavailable): nothing catches it, the
\* exception leaves calculate_graph_metrics.
QueryRaises ==
    /\ gm_pc = "loop"
    /\ gm_i <= Len(combinations(nodes))
    /\ gm_pc' = "raised"
    /\ UNCHANGED <<orderVars, nodes, max_length, graph, gm_i, node_scores,
                   paths_between_nodes, intermediate_nodes, mergeVars, optVars,
                   nerVars, qnVars, normVars, handlerVars>>

\* return node_scores, paths_between_nodes, list(intermediate_nodes)
GraphReturn ==
    /\ gm_pc = "loop"
    /\ gm_i > Len(combinations(nodes))
    /\ gm_pc' = "returned"
    /\ UNCHANGED <<orderVars, nodes, max_length, graph, gm_i, node_scores,
                   paths_between_nodes, intermediate_nodes, mergeVars, optVars,
                   nerVars, qnVars, normVars, handlerVars>>

GraphNext == PairWithPath \/ PairWithoutPath \/ QueryRaises \/ GraphReturn

SpecGraph == GraphInit /\ [][GraphNext]_vars

(***************************************************************************)
(* Properties of the graph relevance scorer                                *)
(***************************************************************************)
\* A relationship the query lets through, and a node it lets a path cross.
AllowedEdge(e) == e.type \notin ExcludedTypes

CleanNode(n) == Labels(n) \cap NoiseLabels = {} /\ n \notin PlaceholderTitles

\* The nodes at the far end of a walk of exactly k allowed relationships
\* from a whose interior nodes are all clean.
RECURSIVE Front(_, _)
Front(a, k) ==
    IF k = 0 THEN {a}
    ELSE UNION { {OtherEnd(e, m) : e \in {f \in graph : AllowedEdge(f)
                                             /\ m \in {f.src, f.dst}}} :
                 m \in {x \in Front(a, k - 1) : k = 1 \/ CleanNode(x)} }

\* a qualifying path of at most max_length edges exists between a and b
HasPath(a, b) == \E k \in 1..max_length : b \in Front(a, k)

\* d(a, b): the edge count of the shortest qualifying path
Dist(a, b) ==
    CHOOSE k \in 1..max_length :
        b \in Front(a, k) /\ \A j \in 1..(k - 1) : b \notin Front(a, j)

\* The pairs of combinations(nodes, 2) the loop has been through.
Processed == {combinations(nodes)[k] : k \in 1..(gm_i - 1)}

\* The titles b whose pair with a has been processed and has a path.
Partners(a) ==
    {b \in Range(nodes) :
        (<<a, b>> \in Processed \/ <<b, a>> \in Processed) /\ HasPath(a, b)}

RECURSIVE SumInverse(_, _)
SumInverse(a, bs) ==
    IF bs = {} THEN 0
    ELSE LET b == CHOOSE x \in bs : TRUE
         IN  Unit \div (1 + Dist(a, b)) + SumInverse(a, bs \ {b})

Reverse(sq) == [i \in 1..Len(sq) |-> sq[Len(sq) + 1 - i]]

\* C3: the score of each title a is the sum, over the other titles b with a
\* qualifying path of at most max_length edges, of 1/(1 + d(a,b)); each pair
\* is counted once, at both ends, and a pair without a path adds 0.
C3_ScoreIsSumOverPairs ==
    gm_pc \in {"loop", "returned"} =>
        \A a \in Range(nodes) : node_scores[a] = SumInverse(a, Partners(a))

\* The call returned; one title has partners at two distances and one pair
\* of titles has no qualifying path.
C3_Witness ==
    /\ gm_pc = "returned"
    /\ \E a, b, c \in Range(nodes) :
          /\ HasPath(a, b) /\ HasPath(a, c) /\ Dist(a, b) # Dist(a, c)
          /\ ~HasPath(b, c)
          /\ node_scores[c] > 0 /\ node_scores[a] > node_scores[b]

\* C4: for every pair (a,b) with a qualifying path the path map has entries
\* under (a,b) and (b,a), and the path under (a,b) is the reverse of the
\* path under (b,a).
C4_PathsReversed ==
    \A pr \in Processed :
        HasPath(pr[1], pr[2]) =>
            /\ <<pr[1], pr[2]>> \in DOMAIN paths_between_nodes
            /\ <<pr[2], pr[1]>> \in DOMAIN paths_between_nodes
            /\ paths_between_nodes[<<pr[1], pr[2]>>] =
                  Reverse(paths_between_nodes[<<pr[2], pr[1]>>])

\* C5: a failed pairwise query is treated as "no path": the call goes on and
\* never ends with the store's error.
C5_FailedQueryIsNoPath == gm_pc # "raised"

\* C6: the keys of the score map are the input titles, every score starts
\* at 0 and never decreases, and a title without a qualifying path to any
\* other input title ends with score 0.
C6_ScoreMap ==
    /\ [](gm_pc # "idle" => DOMAIN node_scores = Range(nodes))
    /\ [](gm_pc = "loop" /\ gm_i = 1 =>
            \A t \in Range(nodes) : node_scores[t] = 0)
    /\ [][\A t \in Range(nodes) : node_scores'[t] >= node_scores[t]]_vars
    /\ [](gm_pc = "returned" =>
            \A t \in Range(nodes) :
                (\A u \in Range(nodes) \ {t} : ~HasPath(t, u)) =>
                    node_scores[t] = 0)

\* Scenario C: titles A, B, C, a path of length 1 between A and B only.
C6_Witness ==
    /\ gm_pc = "returned"
    /\ nodes = <<"A", "B", "C">>
    /\ graph = {[src |-> "A", dst |-> "B", type |-> "VRAG"]}
    /\ node_scores["A"] * 2 = Unit
    /\ node_scores["B"] * 2 = Unit
    /\ node_scores["C"] = 0
    /\ intermediate_nodes = {}

\* The titles strictly between the two ends of a recorded path: a recorded
\* path alternates titles (odd positions) and relationship arrows.
InteriorTitles(pwr) == {pwr[k] : k \in {j \in 2..(Len(pwr) - 1) : j % 2 = 1}}

\* C25: the intermediate nodes are exactly the interior nodes (both ends
\* excluded) of the recorded paths that are not input titles; none of them
\* is an input title.  The collection is a set, returned as a list: no
\* title is in it twice.
C25_IntermediateExact ==
    /\ intermediate_nodes =
          UNION {InteriorTitles(paths_between_nodes[k]) : k \in DOMAIN paths_between_nodes}
            \ Range(nodes)
    /\ intermediate_nodes \cap Range(nodes) = {}

\* The scorer returned for three titles with a path recorded for every
\* pair, one of them through the title I, which is no input title.
C25_Witness ==
    /\ gm_pc = "returned"
    /\ Len(nodes) = 3
    /\ Cardinality(DOMAIN paths_between_nodes) = 6
    /\ intermediate_nodes = {"I"}
    /\ \E k \in DOMAIN paths_between_nodes : "I" \in InteriorTitles(paths_between_nodes[k])

(***************************************************************************)
(* The scorer on the floats of the code                                    *)
(*                                                                         *)
(* calculate_graph_metrics once more, with node_scores kept twice: exact   *)
(* (node_scores) and as the floats of the code (float_scores), and run on  *)
(* an input list taken in every order.  A float is an IEEE-754 double:     *)
(* Precision significant bits, most significant first, and the exponent of *)
(* the first bit; <<>> is 0.0.  Sums and quotients are rounded to nearest, *)
(* ties to even.                                                           *)
(***************************************************************************)
Precision == 53

FloatZero == [exp |-> 0, bits |-> <<>>]

Zeros(n) == [i \in 1..n |-> 0]

\* a + b (equally long) on the bits i..j, given the carry into bit j: the
\* carry out of bit i, then the sum bits.  The range is added half by half,
\* the right half first.
RECURSIVE AddRange(_, _, _, _, _)
AddRange(a, b, i, j, carry) ==
    IF i > j THEN <<carry>>
    ELSE IF i = j THEN <<(a[i] + b[i] + carry) \div 2, (a[i] + b[i] + carry) % 2>>
    ELSE LET mid == (i + j) \div 2
             right == AddRange(a, b, mid + 1, j, carry)
             left == IF right[1] = 0 THEN AddRange(a, b, i, mid, 0)
                     ELSE AddRange(a, b, i, mid, 1)
         IN  left \o Tail(right)

\* a + b as Len(a) + 1 bits
AddBits(a, b) == AddRange(a, b, 1, Len(a), 0)

\* The double nearest to the exact value bits (first bit 1) whose first bit
\* has exponent exp.
RoundToDouble(exp, bits) ==
    IF Len(bits) <= Precision
    THEN [exp |-> exp, bits |-> bits \o Zeros(Precision - Len(bits))]
    ELSE LET kept == SubSeq(bits, 1, Precision)
             guard == bits[Precision + 1]
             sticky == \E i \in (Precision + 2)..Len(bits) : bits[i] = 1
             up == guard = 1 /\ (sticky \/ kept[Precision] = 1)
             sum == AddBits(kept, Zeros(Precision - 1) \o <<1>>)
         IN  IF ~up THEN [exp |-> exp, bits |-> kept]
             ELSE IF sum[1] = 1
                  THEN [exp |-> exp + 1, bits |-> SubSeq(sum, 1, Precision)]
                  ELSE [exp |-> exp, bits |-> Tail(sum)]

\* x + y of two floats that are not negative
FloatAdd(x, y) ==
    IF x.bits = <<>> THEN y
    ELSE IF y.bits = <<>> THEN x
    ELSE LET hi == IF x.exp >= y.exp THEN x ELSE y
             lo == IF x.exp >= y.exp THEN y ELSE x
             d == hi.exp - lo.exp
             sum == AddBits(hi.bits \o Zeros(d), Zeros(d) \o lo.bits)
         IN  IF sum[1] = 1 THEN RoundToDouble(hi.exp + 1, sum)
             ELSE RoundToDouble(hi.exp, Tail(sum))

\* the smallest k with 2^k >= n
RECURSIVE CeilLog2(_)
CeilLog2(n) == IF n <= 1 THEN 0 ELSE 1 + CeilLog2((n + 1) \div 2)

RECURSIVE Pow2(_)
Pow2(k) == IF k = 0 THEN 1 ELSE 2 * Pow2(k - 1)

\* count steps of the long division of r by n (r < 2 * n): the quotient bits
\* and what is left, the steps done half by half
RECURSIVE LongDivision(_, _, _)
LongDivision(r, n, count) ==
    IF count = 0 THEN [bits |-> <<>>, rest |-> r]
    ELSE IF count = 1
    THEN [bits |-> <<IF r >= n THEN 1 ELSE 0>>,
          rest |-> 2 * (r - (IF r >= n THEN n ELSE 0))]
    ELSE LET first == LongDivision(r, n, count \div 2)
             second == LongDivision(first.rest, n, count - count \div 2)
         IN  [bits |-> first.bits \o second.bits, rest |-> second.rest]

\* 1 / n for an int n >= 1
FloatInverse(n) ==
    LET k == CeilLog2(n)
        q == LongDivision(Pow2(k), n, Precision + 1)
    IN  RoundToDouble(0 - k, q.bits \o <<IF q.rest = 0 THEN 0 ELSE 1>>)

\* score = 1 / (1 + dist), as the float it is
FloatPairScore(dist) == FloatInverse(1 + dist)

\* node_scores[node1] += score; node_scores[node2] += score, on floats
AddFloatScore(scores, node1, node2, score) ==
    LET once == [scores EXCEPT ![node1] = FloatAdd(@, score)]
    IN  [once EXCEPT ![node2] = FloatAdd(@, score)]

\* node_scores = {node: 0.0 for node in nodes}
InitialFloatScores(ns) == [t \in Range(ns) |-> FloatZero]

\* The input lists and the stores of this specification.  A list holds the
\* first titles of OrderTitles, in any order: the order of the list is the
\* order of combinations(nodes, 2), the one order the loop takes the pairs
\* in.  In each store a pair has at most one shortest path that qualifies.
OrderTitles == <<"A", "B", "C", "D", "E">>

\* B is linked to A, C, D and E
StarEdges ==
    { [src |-> "A", dst |-> "B", type |-> "VRAG"],
      [src |-> "B", dst |-> "C", type |-> "VRAG"],
      [src |-> "B", dst |-> "D", type |-> "VRAG"],
      [src |-> "B", dst |-> "E", type |-> "VRAG"] }

OrderStores ==
    { StarEdges,
      { [src |-> "A", dst |-> "B", type |-> "VRAG"],
        [src |-> "A", dst |-> "I", type |-> "VRAG"],
        [src |-> "I", dst |-> "C", type |-> "VRAG"],
        [src |-> "B", dst |-> "D", type |-> "VRAG"] },
      { [src |-> "A", dst |-> "B", type |-> "VRAG"],
        [src |-> "C", dst |-> "D", type |-> "SSYLKA"] } }

\* the lists that hold the elements of ns once each
Reorderings(ns) ==
    { [i \in 1..Len(ns) |-> ns[p[i]]] : p \in IndexOrders(Len(ns)) }

OrderLists ==
    UNION { Reorderings(SubSeq(OrderTitles, 1, n)) : n \in 0..Len(OrderTitles) }

OrderInit ==
    /\ nodes \in OrderLists
    /\ max_length \in 1..MaxHops
    /\ graph \in OrderStores
    /\ gm_i = 1
    /\ node_scores = InitialScores(nodes)
    /\ float_scores = InitialFloatScores(nodes)
    /\ paths_between_nodes = <<>>
    /\ intermediate_nodes = {}
    /\ gm_pc = "loop"
    /\ MergeIdle
    /\ OptIdle
    /\ NerIdle
    /\ QnIdle
    /\ NormIdle
    /\ HandlerIdle

\* One pass of "for node1, node2 in combinations(nodes, 2)" in which the
\* query returns a record; the scores are kept as floats too.
FloatPairWithPath ==
    /\ gm_pc = "loop"
    /\ gm_i <= Len(combinations(nodes))
    /\ LET node1 == combinations(nodes)[gm_i][1]
           node2 == combinations(nodes)[gm_i][2]
       IN  \E record \in QueryRecords(node1, node2, max_length) :
              /\ node_scores' = AddScore(node_scores, node1, node2,
                                         PairScore(Len(record.rels)))
              /\ float_scores' = AddFloatScore(float_scores, node1, node2,
                                               FloatPairScore(Len(record.rels)))
              /\ paths_between_nodes' =
                    StorePath(paths_between_nodes, node1, node2,
                              path_with_rels(record.path, record.rels, 1))
              /\ intermediate_nodes' = intermediate_nodes \cup
                    {n \in Range(Interior(record.path)) : n \notin Range(nodes)}
    /\ gm_i' = gm_i + 1
    /\ UNCHANGED <<nodes, max_length, graph, gm_pc, mergeVars, optVars,
                   nerVars, qnVars, normVars, handlerVars>>

\* One pass in which the query returns no record: the else branch.
FloatPairWithoutPath ==
    /\ gm_pc = "loop"
    /\ gm_i <= Len(combinations(nodes))
    /\ LET node1 == combinations(nodes)[gm_i][1]
           node2 == combinations(nodes)[gm_i][2]
       IN  /\ QueryRecords(node1, node2, max_length) = {}
           /\ node_scores' = AddScore(node_scores, node1, node2, NoPathScore)
           /\ float_scores' = AddFloatScore(float_scores, node1, node2, FloatZero)
    /\ gm_i' = gm_i + 1
    /\ UNCHANGED <<nodes, max_length, graph, paths_between_nodes,
                   intermediate_nodes, gm_pc, mergeVars, optVars, nerVars,
                   qnVars, normVars, handlerVars>>

OrderNext ==
    FloatPairWithPath \/ FloatPairWithoutPath \/ QueryRaises \/ GraphReturn

SpecGraphOrder == OrderInit /\ [][OrderNext]_vars

(***************************************************************************)
(* Properties of the scorer under a reordered input list                   *)
(***************************************************************************)
\* result.single() is None
NoPathRecord == [path |-> <<>>, rels |-> <<>>]

\* session.run(query, node1=node1, node2=node2).single(): the record of
\* the one shortest qualifying path from node1 to node2, if there is one
StoreRecord(node1, node2) ==
    LET found == QueryRecords(node1, node2, max_length)
    IN  IF found = {} THEN NoPathRecord ELSE CHOOSE r \in found : TRUE

\* The locals of calculate_graph_metrics(ns) after the first k pairs of
\* combinations(ns, 2): node_scores (exact and as floats),
\* paths_between_nodes and intermediate_nodes.
RECURSIVE MetricsAfter(_, _)
MetricsAfter(ns, k) ==
    IF k = 0
    THEN [scores |-> InitialScores(ns), floats |-> InitialFloatScores(ns),
          paths |-> <<>>, intermediate |-> {}]
    ELSE LET m == MetricsAfter(ns, k - 1)
             node1 == combinations(ns)[k][1]
             node2 == combinations(ns)[k][2]
             record == StoreRecord(node1, node2)
         IN  IF record = NoPathRecord
             THEN [m EXCEPT
                     !.scores = AddScore(@, node1, node2, NoPathScore),
                     !.floats = AddFloatScore(@, node1, node2, FloatZero)]
             ELSE [scores |-> AddScore(m.scores, node1, node2,
                                       PairScore(Len(record.rels))),
                   floats |-> AddFloatScore(m.floats, node1, node2,
                                            FloatPairScore(Len(record.rels))),
                   paths |-> StorePath(m.paths, node1, node2,
                                       path_with_rels(record.path, record.rels, 1)),
                   intermediate |-> m.intermediate \cup
                       {n \in Range(Interior(record.path)) : n \notin Range(ns)}]

\* def calculate_graph_metrics(nodes, max_length): what the call returns
calculate_graph_metrics(ns) == MetricsAfter(ns, Len(combinations(ns)))

\* In the stores of this specification the query has one answer at most.
OneShortestPath ==
    \A a, b \in Range(nodes) : Cardinality(QueryRecords(a, b, max_length)) <= 1

\* A call that returned has returned calculate_graph_metrics(nodes).
ReturnsCalculateGraphMetrics ==
    gm_pc = "returned" =>
        LET m == calculate_graph_metrics(nodes)
        IN  /\ m.scores = node_scores
            /\ m.floats = float_scores
            /\ m.paths = paths_between_nodes
            /\ m.intermediate = intermediate_nodes

\* C26: the score map, the path map and the intermediate nodes the call
\* returns are the same for every order in which the pairs are processed:
\* the call on the list taken in any other order returns the same three
\* outputs.  The scores are the floats the code adds up.
C26_SameInEveryOrder ==
    gm_pc = "returned" =>
        \A ns \in Reorderings(nodes) :
            LET m == calculate_graph_metrics(ns)
            IN  /\ m.floats = float_scores
                /\ m.paths = paths_between_nodes
                /\ m.intermediate = intermediate_nodes

\* The parts of that statement, one by one: the sums taken exactly, the
\* intermediate nodes and the keys of the path map; the float sums; the
\* paths stored.
ExactSumsSameInEveryOrder ==
    gm_pc = "returned" =>
        \A ns \in Reorderings(nodes) :
            LET m == calculate_graph_metrics(ns)
            IN  /\ m.scores = node_scores
                /\ m.intermediate = intermediate_nodes
                /\ DOMAIN m.paths = DOMAIN paths_between_nodes

FloatSumsSameInEveryOrder ==
    gm_pc = "returned" =>
        \A ns \in Reorderings(nodes) :
            calculate_graph_metrics(ns).floats = float_scores

StoredPathsSameInEveryOrder ==
    gm_pc = "returned" =>
        \A ns \in Reorderings(nodes) :
            calculate_graph_metrics(ns).paths = paths_between_nodes

(***************************************************************************)
(* Context optimizer (src/app/rag/agent.py, GraphContextOptimizer)         *)
(*                                                                         *)
(* A payload node is [id, score, graph_info].  graph_info is what the      *)
(* caller put there: the text get_node_info formats (a str), as the        *)
(* retriever's _prepare_agent_payload does, or a mapping with a "title",   *)
(* as format_graph_to_string and _tools_node read it.  The reasoning       *)
(* engine and the graph store are external: the engine's answer to an      *)
(* invocation is any list of at most MaxCalls tool calls, the store        *)
(* answers the neighbour query with any matching neighbour.                *)
(***************************************************************************)
MaxIter == 2      \* largest max_iterations tried
MaxCalls == 2     \* most tool calls in one engine response

\* The titles the initial payload is built from, and the relationships the
\* store may hold during an optimizer run.
PayloadTitles == {"A", "B"}

OptStoreEdges ==
    { [src |-> "A", dst |-> "B", type |-> "VRAG"],
      [src |-> "C", dst |-> "A", type |-> "VRAG"] }

NodeIdOne(i) == "node_1"

\* f"node_{i+1}" for the 0-based index i of enumerate: node_<position>
NodeId(i) == "node_" \o ToString(i)

\* return None
None == [type |-> "None"]

\* get_node_info(node_title, detailed): None when the store holds no node
\* of that title, else the text it formats (a str), never a mapping.
get_node_info(node_title, detailed, held) ==
    IF node_title \notin held THEN None
    ELSE [type |-> "str", heading |-> node_title, detailed |-> detailed]

\* node_data['title']: a str (or None) has no item 'title'
HasItemTitle(node_data) == node_data.type = "dict"

\* round(node_scores.get(title, 0.0), 3), in thousandths; node_scores maps
\* titles to fractions (the sums of 1/length the scorer computes, none of
\* which lies half-way between two thousandths).
Round3(scores, title) ==
    IF title \notin DOMAIN scores THEN 0
    ELSE (2000 * scores[title].num + scores[title].den)
             \div (2 * scores[title].den)

\* for i, title in enumerate(unique_titles): the nodes of the first k titles
RECURSIVE PreparedNodes(_, _, _, _, _)
PreparedNodes(unique_titles, doc_titles, scores, held, k) ==
    IF k = 0 THEN <<>>
    ELSE LET title == unique_titles[k]
             is_detailed == title \in Range(doc_titles)
             node_data == get_node_info(title, is_detailed, held)
             before == PreparedNodes(unique_titles, doc_titles, scores,
                                     held, k - 1)
         IN  IF node_data.type = "None" THEN before
             ELSE Append(before,
                         [id |-> NodeId(k),
                          score |-> IF is_detailed
                                    THEN Round3(scores, title) ELSE 0,
                          graph_info |-> node_data])

\* _prepare_agent_payload: doc_titles are the keys of doc_to_chunks,
\* node_scores and intermediate_nodes what calculate_graph_metrics returned,
\* held the titles of the store's nodes; the value is payload["nodes"].
prepare_agent_payload(doc_titles, scores, intermediate, held) ==
    LET unique_titles ==
            doc_titles \o SelectSeq(intermediate,
                                    LAMBDA n : n \notin Range(doc_titles))
    IN  PreparedNodes(unique_titles, doc_titles, scores, held,
                      Len(unique_titles))

\* The lists of pairwise distinct payload titles.
TitleLists ==
    UNION { {t \in [1..n -> PayloadTitles] : \A i, j \in 1..n : t[i] = t[j] => i = j} :
            n \in 0..Cardinality(PayloadTitles) }

\* The scores, the intermediate nodes and the store's nodes tried.
NodeScoreMaps ==
    { [t \in PayloadTitles |-> [num |-> 0, den |-> 1]],
      [t \in PayloadTitles |-> IF t = "A" THEN [num |-> 4, den |-> 3]
                                          ELSE [num |-> 1, den |-> 2]] }

IntermediateLists == { <<>>, <<"C">>, <<"C", "A">> }

HeldTitleSets == SUBSET {"A", "B", "C"}

\* The payloads the retriever hands to optimize (an intermediate node is
\* not one of the candidates).
PreparedPayloads ==
    UNION { { prepare_agent_payload(d, s, m, h) :
                s \in NodeScoreMaps,
                m \in {im \in IntermediateLists : Range(im) \cap Range(d) = {}},
                h \in HeldTitleSets } :
            d \in TitleLists }

\* Payloads whose graph_info is a mapping: pairwise distinct titles, the id
\* of a node is node_<position>.
MappingPayloads ==
    { [i \in 1..Len(ts) |->
          [id |-> NodeId(i), score |-> 0,
           graph_info |-> [type |-> "dict", title |-> ts[i]]]] :
        ts \in TitleLists }

\* The payloads optimize starts from.
InitialPayloads == PreparedPayloads \cup MappingPayloads

\* self.tools_by_name
tools_by_name == {"delete_nodes", "expand_nodes_via_relation"}

\* The tool calls an engine response is made of: deletions (an id twice, an
\* id no node has), expansions, and a tool the optimizer does not have.
ToolCalls ==
    { [name |-> "delete_nodes", args |-> [node_ids |-> ids]] :
        ids \in {<<"node_1", "node_1">>, <<"node_2", "node_9">>} }
    \cup
    { [name |-> "expand_nodes_via_relation",
       args |-> [source_node_title |-> a[1], relation_type |-> a[2]]] :
        a \in {<<"A", "'vrag'">>, <<"B", "DRUG">>} }
    \cup
    { [name |-> "merge_nodes", args |-> <<>>] }

\* relation_type.strip("()[]'\" ").upper()
clean_rel(relation_type) ==
    CASE relation_type = "'vrag'" -> "VRAG"
      [] relation_type = "vrag" -> "VRAG"
      [] OTHER -> relation_type

\* toUpper($rel_type)
toUpper(rel_type) == CASE rel_type = "vrag" -> "VRAG" [] OTHER -> rel_type

\* MATCH (n {title: $source_title})-[r]-(m) WHERE type(r) = $rel_type OR
\* type(r) = toUpper($rel_type) RETURN m.title: the titles the query matches
NeighbourTitles(source_title, rel_type) ==
    { OtherEnd(e, source_title) :
        e \in {f \in graph : /\ source_title \in {f.src, f.dst}
                             /\ f.type \in {rel_type, toUpper(rel_type)}} }

\* .single() of a query that matched nothing
NoRecord == "<none>"

\* The store's answers to the neighbour queries of a list of tool calls
\* (LIMIT 1: any one of the matches), NoRecord where nothing is asked.
StoreAnswers(calls) ==
    { a \in [1..Len(calls) -> {"A", "B", "C", NoRecord}] :
        \A k \in 1..Len(calls) :
            LET found == IF calls[k].name = "expand_nodes_via_relation"
                         THEN NeighbourTitles(calls[k].args.source_node_title,
                                              clean_rel(calls[k].args.relation_type))
                         ELSE {}
            IN  IF found = {} THEN a[k] = NoRecord ELSE a[k] \in found }

\* node_data['title'].replace(' ', '_')
SpacesToUnderscores(title) ==
    CASE title = "Chernyi Legion" -> "Chernyi_Legion" [] OTHER -> title

\* f"node_{node_data['title'].replace(' ', '_')}"
new_node_id(title) == "node_" \o SpacesToUnderscores(title)

\* format_graph_to_string(payload): "none" when it returns its text, else
\* the exception it raises; info.get(...) of a graph_info that is a str
\* raises AttributeError, and an empty node list is answered before the loop.
format_graph_to_string(ns) ==
    IF \E n \in Range(ns) : n.graph_info.type # "dict"
    THEN "AttributeError" ELSE "none"

\* @tool delete_nodes
delete_nodes(args) ==
    [exc |-> "none", action |-> "delete", ids |-> args.node_ids,
     new_nodes |-> <<>>, status |-> "none"]

ExpandEchoesSourceWhenNotFound(args, answer) ==
    [exc |-> "none", action |-> "expand", ids |-> <<>>,
     new_nodes |-> <<[id |-> "node_Z", score |-> 0,
                      graph_info |-> [type |-> "dict", title |-> "Z"]]>>,
     status |-> "none"]

\* @tool expand_nodes_via_relation; answer is what the store returned (the
\* neighbour is a node of the store).  The status "not found" stands for
\* the text of the "status" entry.
expand_nodes_via_relation(args, answer) ==
    IF answer = NoRecord
    THEN [exc |-> "none", action |-> "expand", ids |-> <<>>, new_nodes |-> <<>>,
          status |-> "not found"]
    ELSE LET node_data == get_node_info(answer, TRUE, {answer})
         IN  IF ~HasItemTitle(node_data)
             THEN [exc |-> "TypeError", action |-> "expand", ids |-> <<>>,
                   new_nodes |-> <<>>, status |-> "none"]
             ELSE [exc |-> "none", action |-> "expand", ids |-> <<>>,
                   status |-> "none",
                   new_nodes |->
                     << [id |-> new_node_id(node_data.title),
                         graph_info |-> node_data] >>]

\* tool_obj.invoke(call["args"])
InvokeTool(call, answer) ==
    IF call.name = "delete_nodes" THEN delete_nodes(call.args)
    ELSE expand_nodes_via_relation(call.args, answer)

\* [n for n in payload["nodes"] if n["id"] not in target_ids]
WithoutIds(ns, target_ids) ==
    SelectSeq(ns, LAMBDA n : n.id \notin Range(target_ids))

\* the nodes of new_nodes whose title is not in existing_titles
NotPresent(new_nodes, ns) ==
    SelectSeq(new_nodes,
              LAMBDA nn : nn.graph_info.title
                              \notin {n.graph_info.title : n \in Range(ns)})

\* obs = f"... {len(target_ids)}"
DeletedObs(ns, target_ids) == Len(target_ids)

DeleteInPlace(st, res) ==
    [st EXCEPT
       !.nodes = WithoutIds(st.nodes, res.ids),
       !.state_nodes = WithoutIds(st.nodes, res.ids),
       !.msgs = Append(@, [obs |-> "deleted",
                           count |-> DeletedObs(st.nodes, res.ids)])]

\* if result["action"] == "delete": payload["nodes"] is bound to a new list
DeleteStep(st, res) ==
    [st EXCEPT
       !.nodes = WithoutIds(st.nodes, res.ids),
       !.aliased = FALSE,
       !.msgs = Append(@, [obs |-> "deleted",
                           count |-> DeletedObs(st.nodes, res.ids)])]

\* elif result["action"] == "expand": n["graph_info"]["title"] of a
\* graph_info that is a str raises TypeError; the new nodes are appended to
\* the list payload["nodes"] names
ExpandStep(st, res) ==
    IF \/ \E n \in Range(st.nodes) : ~HasItemTitle(n.graph_info)
       \/ \E nn \in Range(res.new_nodes) : ~HasItemTitle(nn.graph_info)
    THEN [st EXCEPT !.exc = "TypeError"]
    ELSE LET added == NotPresent(res.new_nodes, st.nodes)
         IN  [st EXCEPT
                !.nodes = @ \o added,
                !.state_nodes = IF st.aliased THEN @ \o added ELSE @,
                !.msgs = Append(@, [obs |-> "added", count |-> Len(added)])]

ToolCallStepSkipsUnknown(st, call, answer) ==
    IF call.name \notin tools_by_name THEN st
    ELSE LET res == InvokeTool(call, answer)
         IN  IF res.exc # "none" THEN [st EXCEPT !.exc = res.exc]
             ELSE IF res.action = "delete" THEN DeleteStep(st, res)
             ELSE ExpandStep(st, res)

ToolCallStepDeletesInPlace(st, call, answer) ==
    IF call.name \notin tools_by_name THEN [st EXCEPT !.exc = "KeyError"]
    ELSE LET res == InvokeTool(call, answer)
         IN  IF res.exc # "none" THEN [st EXCEPT !.exc = res.exc]
             ELSE IF res.action = "delete" THEN DeleteInPlace(st, res)
             ELSE ExpandStep(st, res)

\* One pass of "for call in last_msg.tool_calls".  st.nodes is
\* payload["nodes"]; st.state_nodes is the list the state still holds (the
\* same list object until a deletion rebinds payload["nodes"]).
ToolCallStep(st, call, answer) ==
    IF call.name \notin tools_by_name THEN [st EXCEPT !.exc = "KeyError"]
    ELSE LET res == InvokeTool(call, answer)
         IN  IF res.exc # "none" THEN [st EXCEPT !.exc = res.exc]
             ELSE IF res.action = "delete" THEN DeleteStep(st, res)
             ELSE ExpandStep(st, res)

\* _tools_node after the first k tool calls
RECURSIVE ToolsPrefix(_, _, _, _)
ToolsPrefix(calls, answers, ns, k) ==
    IF k = 0
    THEN [nodes |-> ns, state_nodes |-> ns, aliased |-> TRUE, msgs |-> <<>>,
          exc |-> "none"]
    ELSE LET st == ToolsPrefix(calls, answers, ns, k - 1)
         IN  IF st.exc # "none" THEN st
             ELSE ToolCallStep(st, calls[k], answers[k])

\* if state.get("llm_calls", 0) >= self.max_iterations
CapReached(calls, cap) == calls >= cap

routerIgnoresToolCalls(last_tool_calls) == "tools"

\* _router
router(last_tool_calls) == IF last_tool_calls # <<>> THEN "tools" ELSE "END"

OptInit ==
    /\ payload \in InitialPayloads
    /\ max_iterations \in 1..MaxIter
    /\ graph \in SUBSET OptStoreEdges
    /\ llm_calls = 0
    /\ tool_calls = <<>>
    /\ tool_messages = <<>>
    /\ ai_messages = 0
    /\ tool_cycles = 0
    /\ error = "none"
    /\ opt_pc = "llm"
    /\ MergeIdle
    /\ ScorerIdle
    /\ NerIdle
    /\ QnIdle
    /\ NormIdle
    /\ HandlerIdle

\* _llm_node when format_graph_to_string raises: the exception leaves the
\* node, the graph and optimize before the cap is looked at and before the
\* engine is invoked.
LlmRaises ==
    /\ opt_pc = "llm"
    /\ format_graph_to_string(payload) # "none"
    /\ error' = format_graph_to_string(payload)
    /\ opt_pc' = "raised"
    /\ UNCHANGED <<payload, max_iterations, llm_calls, tool_calls,
                   tool_messages, ai_messages, tool_cycles, mergeVars,
                   graphVars, nerVars, qnVars, normVars, handlerVars>>

\* _llm_node when the cap is reached: AIMessage("GOTOVO"), no engine call;
\* the router then ends the run.
LlmForced ==
    /\ opt_pc = "llm"
    /\ format_graph_to_string(payload) = "none"
    /\ CapReached(llm_calls, max_iterations)
    /\ tool_calls' = <<>>
    /\ ai_messages' = ai_messages + 1
    /\ opt_pc' = router(tool_calls')
    /\ UNCHANGED <<payload, max_iterations, llm_calls, tool_messages, error,
                   tool_cycles, mergeVars, graphVars, nerVars, qnVars,
                   normVars, handlerVars>>

\* _llm_node invoking the engine, then _router
LlmInvoke ==
    /\ opt_pc = "llm"
    /\ format_graph_to_string(payload) = "none"
    /\ ~CapReached(llm_calls, max_iterations)
    /\ \E n \in 0..MaxCalls : tool_calls' \in [1..n -> ToolCalls]
    /\ llm_calls' = llm_calls + 1
    /\ ai_messages' = ai_messages + 1
    /\ opt_pc' = router(tool_calls')
    /\ UNCHANGED <<payload, max_iterations, tool_messages, error,
                   tool_cycles, mergeVars, graphVars, nerVars, qnVars,
                   normVars, handlerVars>>

\* _tools_node: every tool call of the last AI message, in order; an
\* exception leaves the node, the graph and optimize.
ToolsNode ==
    /\ opt_pc = "tools"
    /\ \E answers \in StoreAnswers(tool_calls) :
          LET out == ToolsPrefix(tool_calls, answers, payload, Len(tool_calls))
          IN  IF out.exc = "none"
              THEN /\ payload' = out.nodes
                   /\ tool_messages' = out.msgs
                   /\ error' = "none"
                   /\ opt_pc' = "llm"
              ELSE /\ payload' = out.state_nodes
                   /\ tool_messages' = tool_messages
                   /\ error' = out.exc
                   /\ opt_pc' = "raised"
    /\ tool_cycles' = tool_cycles + 1
    /\ UNCHANGED <<max_iterations, llm_calls, tool_calls, ai_messages,
                   mergeVars, graphVars, nerVars, qnVars, normVars, handlerVars>>

OptNext == LlmRaises \/ LlmForced \/ LlmInvoke \/ ToolsNode

SpecOpt == OptInit /\ [][OptNext]_vars

(***************************************************************************)
(* Properties of the context optimizer                                     *)
(***************************************************************************)
\* C2: the engine is never invoked more than max_iterations times and the
\* run goes on until Done (it never stops anywhere else).
C2_BoundedAndReturns ==
    /\ llm_calls <= max_iterations
    /\ opt_pc = "END" \/ ENABLED OptNext

\* The steps a run can still take are bounded by this measure: every step
\* lowers it and it is never negative.
StepsLeft ==
    3 * (max_iterations - llm_calls)
    + (CASE opt_pc = "tools" -> 3 [] opt_pc = "llm" -> 2 [] OTHER -> 0)

\* What holds of every run: the engine is never invoked more than
\* max_iterations times and the run ends, in Done or with an exception that
\* left a Decide or an Execute step: it stops nowhere else, and every step
\* lowers the number of steps left.
BoundedAndEnds ==
    /\ [](llm_calls <= max_iterations)
    /\ [](opt_pc \in {"END", "raised"} \/ ENABLED OptNext)
    /\ [][StepsLeft' < StepsLeft]_vars

\* The payload after the first k calls of a list of delete_nodes calls, as
\* the specification describes the tool: the nodes whose id is in ids go.
RECURSIVE AfterDeletes(_, _, _)
AfterDeletes(ns, calls, k) ==
    IF k = 0 THEN ns
    ELSE SelectSeq(AfterDeletes(ns, calls, k - 1),
                   LAMBDA n : \A i \in 1..Len(calls[k].args.node_ids) :
                                  n.id # calls[k].args.node_ids[i])

\* C9: delete_nodes(ids) removes the nodes whose id is in ids, keeps the
\* others in order, and the count reported to the engine is the number of
\* nodes removed (stated for an Execute cycle of delete_nodes calls).
C9_DeleteReportsRemoved ==
    [][(/\ opt_pc = "tools"
        /\ opt_pc' = "llm"
        /\ \A k \in 1..Len(tool_calls) : tool_calls[k].name = "delete_nodes")
       => /\ payload' = AfterDeletes(payload, tool_calls, Len(tool_calls))
          /\ Len(tool_messages') = Len(tool_calls)
          /\ \A k \in 1..Len(tool_calls) :
                tool_messages'[k].count =
                    Len(AfterDeletes(payload, tool_calls, k - 1))
                    - Len(AfterDeletes(payload, tool_calls, k))]_vars

\* The title of a payload node: graph_info["title"] of a mapping, and the
\* title the text was formatted for otherwise.
TitleOf(n) ==
    IF n.graph_info.type = "dict" THEN n.graph_info.title
    ELSE n.graph_info.heading

\* C10: no two nodes of the payload have the same title, and an expand call
\* whose neighbour is found adds it when no node has its title (reporting
\* 1) and adds nothing when one has (reporting 0); stated for an Execute
\* cycle of one expand_nodes_via_relation call.
C10_ExpandAddsAbsentNeighbour ==
    /\ [](\A i, j \in 1..Len(payload) :
             TitleOf(payload[i]) = TitleOf(payload[j]) => i = j)
    /\ [][(/\ opt_pc = "tools"
           /\ Len(tool_calls) = 1
           /\ tool_calls[1].name = "expand_nodes_via_relation"
           /\ NeighbourTitles(tool_calls[1].args.source_node_title,
                              clean_rel(tool_calls[1].args.relation_type)) # {})
          => /\ opt_pc' = "llm"
             /\ \E m \in NeighbourTitles(tool_calls[1].args.source_node_title,
                                         clean_rel(tool_calls[1].args.relation_type)) :
                   IF m \in {TitleOf(n) : n \in Range(payload)}
                   THEN /\ payload' = payload
                        /\ tool_messages' = <<[obs |-> "added", count |-> 0]>>
                   ELSE /\ Len(payload') = Len(payload) + 1
                        /\ SubSeq(payload', 1, Len(payload)) = payload
                        /\ TitleOf(payload'[Len(payload')]) = m
                        /\ tool_messages' = <<[obs |-> "added", count |-> 1]>>]_vars

\* The tool call is an expansion for which the store holds no neighbour.
NoNeighbour(call) ==
    /\ call.name = "expand_nodes_via_relation"
    /\ NeighbourTitles(call.args.source_node_title,
                       clean_rel(call.args.relation_type)) = {}

\* C11: when the store has no neighbour of the source title for the
\* relation type, expand_nodes_via_relation returns no new node and the
\* not-found status, the engine is told 0 nodes were added, and the payload's
\* nodes are after the call what they were before it; an Execute cycle made
\* of such calls leaves the payload as it was.
C11_NotFoundLeavesPayload ==
    /\ [](opt_pc = "tools" =>
            \A k \in 1..Len(tool_calls) : \A answers \in StoreAnswers(tool_calls) :
                LET before == ToolsPrefix(tool_calls, answers, payload, k - 1)
                    after == ToolsPrefix(tool_calls, answers, payload, k)
                    res == expand_nodes_via_relation(tool_calls[k].args, answers[k])
                IN  (NoNeighbour(tool_calls[k]) /\ before.exc = "none") =>
                        /\ res.new_nodes = <<>>
                        /\ res.status = "not found"
                        /\ after.exc = "none"
                        /\ after.nodes = before.nodes
                        /\ after.msgs = Append(before.msgs,
                                               [obs |-> "added", count |-> 0]))
    /\ [][(/\ opt_pc = "tools"
           /\ \A k \in 1..Len(tool_calls) : NoNeighbour(tool_calls[k]))
          => /\ opt_pc' = "llm"
             /\ payload' = payload
             /\ tool_messages' = [k \in 1..Len(tool_calls) |->
                                     [obs |-> "added", count |-> 0]]]_vars

\* An Execute cycle of one expansion without a neighbour has completed on a
\* payload of two nodes, while the store holds relationships.
C11_Witness ==
    /\ opt_pc = "llm"
    /\ Len(tool_calls) = 1
    /\ NoNeighbour(tool_calls[1])
    /\ tool_messages = <<[obs |-> "added", count |-> 0]>>
    /\ Len(payload) = 2
    /\ graph # {}

\* The first tool call of the response that raises is one whose name is not
\* a tool of the optimizer.
UnknownToolFirst ==
    \E k \in 1..Len(tool_calls) :
        /\ tool_calls[k].name \notin tools_by_name
        /\ \A j \in 1..(k - 1) :
              \/ tool_calls[j].name = "delete_nodes"
              \/ NoNeighbour(tool_calls[j])

\* C12: a tool call whose name is not a tool of the optimizer makes the
\* Execute cycle fail with the lookup error (KeyError), which leaves
\* optimize: no observation of the cycle is recorded, and the run goes on
\* neither to Decide nor to Done.
C12_UnknownToolPropagates ==
    /\ [][(opt_pc = "tools" /\ UnknownToolFirst)
          => /\ opt_pc' = "raised"
             /\ error' = "KeyError"
             /\ tool_messages' = tool_messages]_vars
    /\ [][opt_pc = "raised" => opt_pc' = "raised"]_vars
    /\ [](opt_pc = "raised" => ~ENABLED OptNext)
    /\ [](opt_pc \in {"llm", "END"} => error = "none")

\* The lookup error left optimize after an earlier tool call of the same
\* response had been carried out.
C12_Witness ==
    /\ opt_pc = "raised"
    /\ error = "KeyError"
    /\ Len(tool_calls) = 2
    /\ tool_calls[1].name = "delete_nodes"
    /\ tool_calls[2].name \notin tools_by_name

\* The run has stopped (Done, or an exception left optimize) and every
\* engine response of the run carried at least one tool call: a response
\* without tool calls ends the run in Done with ai_messages = llm_calls.
StoppedAfterToolCallsOnly ==
    /\ opt_pc \in {"END", "raised"}
    /\ ~(opt_pc = "END" /\ ai_messages = llm_calls)

\* The last AI message is the forced terminal response of _llm_node.
ForcedTerminal == opt_pc = "END" /\ ai_messages = llm_calls + 1

\* C22: a run in which every engine response requests a tool
\* call makes exactly max_iterations engine invocations and exactly
\* max_iterations Execute cycles, every Execute cycle hands over to Decide,
\* and the run ends with the forced terminal response.
C22_ExactlyN ==
    StoppedAfterToolCallsOnly =>
        /\ ForcedTerminal
        /\ llm_calls = max_iterations
        /\ tool_cycles = max_iterations

\* What holds of every run: every engine invocation that requests a tool
\* call is followed by one Execute cycle (the tool calls of the last invocation
\* allowed are executed too); the forced terminal response comes exactly
\* after max_iterations invocations and max_iterations Execute cycles and
\* invokes the engine no more; a run in which every response requests a
\* tool call stops either so, or earlier in the Decide step or the Execute
\* cycle that raises, after llm_calls <= max_iterations invocations and as
\* many Execute cycles.
ExactlyNUnlessRaised ==
    /\ llm_calls <= max_iterations
    /\ opt_pc = "llm" => tool_cycles = llm_calls
    /\ opt_pc = "tools" => tool_cycles + 1 = llm_calls /\ tool_calls # <<>>
    /\ opt_pc = "raised" => tool_cycles = llm_calls /\ error # "none"
    /\ ForcedTerminal =>
          /\ llm_calls = max_iterations
          /\ tool_cycles = max_iterations
          /\ tool_calls = <<>>
    /\ StoppedAfterToolCallsOnly => ForcedTerminal \/ opt_pc = "raised"

\* Scenario D on a smaller payload: max_iterations = 2, two engine
\* invocations with tool calls (the second cycle ran an expand that found
\* nothing), two Execute cycles, then the forced terminal response.
ScenarioDCompleted ==
    /\ ForcedTerminal
    /\ max_iterations = 2
    /\ llm_calls = 2
    /\ tool_cycles = 2
    /\ ai_messages = 3
    /\ tool_messages = <<[obs |-> "added", count |-> 0]>>

\* C23 as claimed: the only transitions are Decide -> Execute, Execute ->
\* Decide (always) and Decide -> Done.
C23_OnlyThreeTransitions ==
    [][\/ opt_pc = "llm" /\ opt_pc' \in {"tools", "END"}
       \/ opt_pc = "tools" /\ opt_pc' = "llm"]_vars

\* A node of the payload has a graph_info that is not a mapping: the
\* payload cannot be formatted for the engine.
Unformattable == \E k \in 1..Len(payload) : payload[k].graph_info.type # "dict"

\* C23 as amended: a Decide step that completes goes to Execute exactly
\* when the response just received carries a tool call and to Done exactly
\* when the latest response carries none (the engine's, or the forced one
\* when llm_calls >= max_iterations, which invokes no engine); a Decide
\* step that cannot format the payload ends the run with the exception,
\* the engine not invoked; Execute -> Decide when the cycle completes, and
\* otherwise the run ends with the exception a tool call raised; Done and
\* the failed run have no successor; llm_calls changes only in a Decide
\* step that invokes the engine, by +1.
C23_Transitions ==
    [][/\ opt_pc \in {"llm", "tools"}
       /\ (opt_pc = "llm" /\ Unformattable) =>
             /\ opt_pc' = "raised"
             /\ error' # "none"
             /\ llm_calls' = llm_calls
             /\ ai_messages' = ai_messages
       /\ (opt_pc = "llm" /\ ~Unformattable) =>
             /\ opt_pc' \in {"tools", "END"}
             /\ opt_pc' = "tools" <=> tool_calls' # <<>>
             /\ opt_pc' = "tools" => llm_calls' = llm_calls + 1
             /\ llm_calls >= max_iterations =>
                   opt_pc' = "END" /\ llm_calls' = llm_calls
             /\ llm_calls < max_iterations => llm_calls' = llm_calls + 1
       /\ opt_pc = "tools" =>
             /\ tool_calls # <<>>
             /\ opt_pc' = "llm" \/ (opt_pc' = "raised" /\ error' # "none")
             /\ llm_calls' = llm_calls
             /\ tool_calls' = tool_calls]_vars

\* A run went Decide, Execute, Decide, Execute and ended there with the
\* exception a tool call raised.
C23_Witness ==
    /\ opt_pc = "raised"
    /\ tool_cycles = 2
    /\ llm_calls = 2
    /\ error # "none"

\* C24: the node list of the optimizer state is changed only by an Execute
\* cycle that completes; a cycle in which a tool call fails leaves it as it
\* was when the cycle began, whatever the calls before the failed one did.
C24_OnlyCompletedCyclesChangePayload ==
    [][/\ payload' # payload => opt_pc = "tools" /\ opt_pc' = "llm"
       /\ opt_pc' = "raised" => payload' = payload]_vars

\* A cycle failed on an unknown tool after a deletion in the same cycle had
\* removed a node from the cycle's own copy of the payload.
C24_Witness ==
    /\ opt_pc = "raised"
    /\ error = "KeyError"
    /\ Len(tool_calls) = 2
    /\ tool_calls[1].name = "delete_nodes"
    /\ tool_calls[2].name \notin tools_by_name
    /\ \E k \in 1..Len(payload) : payload[k].id \in Range(tool_calls[1].args.node_ids)

\* The ids _prepare_agent_payload can give: node_<position> for the
\* positions of unique_titles (the candidates, then at most two
\* intermediate nodes).
PreparationIds == {NodeId(p) : p \in 1..(Cardinality(PayloadTitles) + 2)}

\* How many nodes of ns delete_nodes removes when it is given the single id.
RemovedBy(ns, id) == Len(ns) - Len(WithoutIds(ns, <<id>>))

\* C29: in every payload of a run (preparation, then any sequence of
\* expand_nodes_via_relation and delete_nodes calls) the node ids are
\* pairwise distinct.  Every id is one preparation gave (node_<position>):
\* no id built by expand is among them, so none coincides with a
\* preparation id or with another expand id, and delete_nodes with a
\* single id removes at most one node.
C29_IdsDistinct ==
    /\ \A i, j \in 1..Len(payload) : payload[i].id = payload[j].id => i = j
    /\ \A k \in 1..Len(payload) : payload[k].id \in PreparationIds
    /\ \A id \in PreparationIds : RemovedBy(payload, id) <= 1

\* A cycle whose one call was delete_nodes with the id node_1 has ended: of
\* the two nodes of the payload the one with that id is gone, the other is
\* still there.
C29_Witness ==
    /\ opt_pc = "llm"
    /\ tool_cycles = 1
    /\ Len(tool_calls) = 1
    /\ tool_calls[1].name = "delete_nodes"
    /\ Range(tool_calls[1].args.node_ids) = {NodeId(1)}
    /\ Len(payload) = 1
    /\ payload[1].id = NodeId(2)

(***************************************************************************)
(* normalize_text_entities (src/app/NER.py)                                *)
(*                                                                         *)
(* The text corrector extracts the entities of a text (the matcher, then   *)
(* the span resolver), sorts them by start, rightmost first, and replaces  *)
(* each span of the working text by the word the inflection step returns.  *)
(* The inflection step asks the morphology library for a form: the answer  *)
(* is none, or any of a few words of different lengths.                    *)
(***************************************************************************)
\* text[a:b] for 0 <= a and 0 <= b: Python clips both ends to the length
Slice(t, a, b) ==
    LET lo == Min(a, Len(t))
        hi == Max(lo, Min(b, Len(t)))
    IN  [i \in 1..(hi - lo) |-> t[lo + i]]

\* score=float(score): the resolver compares scores only; a candidate's score
\* is kept as the rank of its ratio among the ratios of the call's candidates,
\* which orders them as the ratios do.
FractionLess(x, y) == x.num * y.den < y.num * x.den

ScoreRank(c, cands) ==
    Cardinality({cands[i].score :
                    i \in {j \in 1..Len(cands) : FractionLess(cands[j].score, c.score)}}) + 1

AsEntities(cands) ==
    [i \in 1..Len(cands) |->
        [text |-> cands[i].text, span |-> cands[i].span,
         score |-> <<ScoreRank(cands[i], cands)>>,
         source |-> cands[i].source, canonical |-> cands[i].canonical]]

\* def gazetteer_ner(text: str, cutoff: int = 82)
DefaultCutoff == 82

\* def extract_entities(text): merge_entities(gazetteer_ner(text))
extract_entities(text, gaz) ==
    merge_entities(AsEntities(gazetteer_ner(text, DefaultCutoff, gaz)))

InsertByStartAscending(sorted, e) ==
    LET later == {i \in 1..Len(sorted) : sorted[i].span[1] > e.span[1]}
        pos == IF later = {} THEN Len(sorted) + 1
               ELSE CHOOSE i \in later : \A j \in later : i <= j
    IN  SubSeq(sorted, 1, pos - 1) \o <<e>> \o SubSeq(sorted, pos, Len(sorted))

\* e put into a list sorted by start, greatest first, behind every element
\* whose start is not smaller (reverse=True keeps the order of equal keys)
InsertByStartDescending(sorted, e) ==
    LET later == {i \in 1..Len(sorted) : sorted[i].span[1] < e.span[1]}
        pos == IF later = {} THEN Len(sorted) + 1
               ELSE CHOOSE i \in later : \A j \in later : i <= j
    IN  SubSeq(sorted, 1, pos - 1) \o <<e>> \o SubSeq(sorted, pos, Len(sorted))

\* entities.sort(key=lambda e: e.span[0], reverse=True), first k entities
RECURSIVE SortByStartPrefix(_, _)
SortByStartPrefix(ents, k) ==
    IF k = 0 THEN <<>>
    ELSE InsertByStartDescending(SortByStartPrefix(ents, k - 1), ents[k])

\* str.upper() on one character
UpperChar(c) ==
    CASE c = "a" -> "A" [] c = "b" -> "B" [] c = "c" -> "C" [] c = "d" -> "D"
      [] c = "e" -> "E" [] c = "f" -> "F" [] c = "g" -> "G" [] c = "h" -> "H"
      [] c = "i" -> "I" [] c = "j" -> "J" [] c = "k" -> "K" [] c = "l" -> "L"
      [] c = "m" -> "M" [] c = "n" -> "N" [] c = "o" -> "O" [] c = "p" -> "P"
      [] c = "q" -> "Q" [] c = "r" -> "R" [] c = "s" -> "S" [] c = "t" -> "T"
      [] c = "u" -> "U" [] c = "v" -> "V" [] c = "w" -> "W" [] c = "x" -> "X"
      [] c = "y" -> "Y" [] c = "z" -> "Z"
      [] OTHER -> c

\* c.isupper() of a character
IsUpper(c) == LowerChar(c) # c

\* str.capitalize(): the first character upper-cased, the others lower-cased
capitalize(s) ==
    IF s = <<>> THEN <<>> ELSE <<UpperChar(s[1])>> \o Lower(Tail(s))

\* target.inflect(features): None (<<>> here), or a parse whose word is
\* longer or shorter than canonical (the morphology library decides).
InflectResults(canonical) == {<<>>, canonical \o <<"o", "m">>, <<"z">>}

\* inflect_to_case(word, canonical), inflected being what the library
\* returned: the fallback is canonical, and the result is capitalized when
\* canonical or word starts with an upper-case letter.
inflect_to_case(word, canonical, inflected) ==
    LET res == IF inflected = <<>> THEN canonical ELSE inflected
    IN  IF IsUpper(canonical[1]) \/ IsUpper(word[1])
        THEN capitalize(res) ELSE res

\* The words inflect_to_case(word, canonical) can return.
InflectedForms(word, canonical) ==
    {inflect_to_case(word, canonical, r) : r \in InflectResults(canonical)}

NormInit ==
    /\ norm_text \in GeneratedTexts
    /\ GAZETTEER \in Gazetteers \cup { << <<"A", "B">> >>, << <<"a", "B">> >> }
    /\ norm_entities = <<>>
    /\ norm_k = 0
    /\ corrected_text = <<>>
    /\ norm_words = <<>>
    /\ norm_pc = "start"
    /\ ner_text = <<>>
    /\ ner_cutoff = 0
    /\ ner_ents = <<>>
    /\ ner_pc = "idle"
    /\ MergeIdle
    /\ GraphIdle
    /\ OptIdle
    /\ QnIdle
    /\ HandlerIdle

\* entities = extract_entities(text); if not entities: return text;
\* entities.sort(...); corrected_text = text
NormExtract ==
    /\ norm_pc = "start"
    /\ LET found == extract_entities(norm_text, GAZETTEER)
       IN  /\ norm_entities' = SortByStartPrefix(found, Len(found))
           /\ norm_pc' = IF found = <<>> THEN "done" ELSE "loop"
    /\ corrected_text' = norm_text
    /\ norm_k' = 1
    /\ UNCHANGED <<norm_text, norm_words, mergeVars, graphVars, optVars,
                   nerVars, qnVars, handlerVars>>

\* one pass of "for e in entities"
NormReplace ==
    /\ norm_pc = "loop"
    /\ norm_k <= Len(norm_entities)
    /\ LET e == norm_entities[norm_k]
           start == e.span[1]
           end == e.span[2]
           orig_word == Slice(corrected_text, start, end)
       IN  IF e.canonical # <<>>
           THEN \E corrected_word \in InflectedForms(orig_word, e.canonical) :
                   /\ corrected_text' = Slice(corrected_text, 0, start)
                                        \o corrected_word
                                        \o Slice(corrected_text, end, Len(corrected_text))
                   /\ norm_words' = Append(norm_words, corrected_word)
           ELSE UNCHANGED <<corrected_text, norm_words, handlerVars>>
    /\ norm_k' = norm_k + 1
    /\ UNCHANGED <<norm_text, norm_entities, norm_pc, mergeVars, graphVars,
                   optVars, nerVars, qnVars, handlerVars>>

\* return corrected_text
NormReturn ==
    /\ norm_pc = "loop"
    /\ norm_k > Len(norm_entities)
    /\ norm_pc' = "done"
    /\ UNCHANGED <<norm_text, norm_entities, norm_k, corrected_text,
                   norm_words, mergeVars, graphVars, optVars, nerVars, qnVars,
                   handlerVars>>

NormNext == NormExtract \/ NormReplace \/ NormReturn

SpecNorm == NormInit /\ [][NormNext]_vars

(***************************************************************************)
(* Properties of the text corrector                                        *)
(***************************************************************************)
\* The entities whose span has been replaced so far.
NormReplaced == IF norm_pc = "start" THEN 0 ELSE norm_k - 1

\* The original text right of entity k up to the entity replaced before it
\* (or to the end of the text).
NormGapAfter(k) ==
    Slice(norm_text, norm_entities[k].span[2],
          IF k = 1 THEN Len(norm_text) ELSE norm_entities[k - 1].span[1])

\* The working text right of the start of entity k, once entities 1..k are
\* replaced: the words returned, each followed by the untouched original text.
RECURSIVE NormRewritten(_)
NormRewritten(k) ==
    IF k = 0 THEN <<>>
    ELSE norm_words[k] \o NormGapAfter(k) \o NormRewritten(k - 1)

NormExpectedText ==
    IF NormReplaced = 0 THEN norm_text
    ELSE Slice(norm_text, 0, norm_entities[NormReplaced].span[1])
         \o NormRewritten(NormReplaced)

\* C27: normalize_text_entities replaces the resolved spans in descending
\* start order, one call of the inflection step per span; when a span
\* (start, end) is about to be replaced the working text's slice [start:end)
\* still equals the original text's slice, whatever the lengths of the words
\* already put in; and the text outside the resolved spans is unchanged: the
\* working text is the original text with each replaced span exchanged for
\* the word returned for it.
C27_RightToLeft ==
    norm_pc \in {"loop", "done"} =>
        /\ \A k \in 1..Len(norm_entities) : norm_entities[k].canonical # <<>>
        /\ \A k \in 2..Len(norm_entities) :
              norm_entities[k].span[1] < norm_entities[k - 1].span[1]
        /\ Len(norm_words) = NormReplaced
        /\ \A k \in (NormReplaced + 1)..Len(norm_entities) :
              Slice(corrected_text, norm_entities[k].span[1], norm_entities[k].span[2])
                  = Slice(norm_text, norm_entities[k].span[1], norm_entities[k].span[2])
        /\ corrected_text = NormExpectedText

\* Two spans were resolved; the right one was replaced by a word of another
\* length and the left one is about to be replaced.
C27_Witness ==
    /\ norm_pc = "loop"
    /\ Len(norm_entities) = 2
    /\ norm_k = 2
    /\ Len(norm_words[1]) # norm_entities[1].span[2] - norm_entities[1].span[1]
    /\ Len(corrected_text) # Len(norm_text)

(***************************************************************************)
(* handle_message (src/app/handlers.py) and send_typing_action             *)
(* (src/app/utils.py)                                                      *)
(*                                                                         *)
(* The handler and the typing task are coroutines of one event loop: each  *)
(* action is the code between two awaits.  A call of the Telegram API or   *)
(* of get_rag_answer returns or raises.                                    *)
(***************************************************************************)
MaxChunks == 2    \* most chunks of an answer
MaxTyping == 3    \* the count of chat actions sent saturates here

ContentTypes == {"text", "command", "photo"}

HandlerInit ==
    /\ content_type \in ContentTypes
    /\ handler_pc = "start"
    /\ stop_typing = FALSE
    /\ typing_task = "none"
    /\ typing_sent = 0
    /\ response_chunks = 0
    /\ MergeIdle
    /\ GraphIdle
    /\ OptIdle
    /\ NerIdle
    /\ QnIdle
    /\ NormIdle

\* if message.content_type != ContentType.TEXT / if message.text.startswith("/"):
\* await message.answer(...); return.  The answer is sent, or raises and the
\* except branch runs.
AnswerNonQuestion ==
    /\ handler_pc = "start"
    /\ content_type # "text"
    /\ handler_pc' \in {"finished", "error"}
    /\ UNCHANGED <<content_type, stop_typing, typing_task, typing_sent,
                   response_chunks, mergeVars, graphVars, optVars, nerVars,
                   qnVars, normVars>>

\* stop_typing = asyncio.Event(); typing_task = asyncio.create_task(...);
\* await get_rag_answer(message.text) is entered
StartTyping ==
    /\ handler_pc = "start"
    /\ content_type = "text"
    /\ stop_typing' = FALSE
    /\ typing_task' = "check"
    /\ handler_pc' = "answering"
    /\ UNCHANGED <<content_type, typing_sent, response_chunks, mergeVars,
                   graphVars, optVars, nerVars, qnVars, normVars>>

\* get_rag_answer returns the chunks; stop_typing.set(); await typing_task
RagAnswerReturns ==
    /\ handler_pc = "answering"
    /\ \E n \in 0..MaxChunks : response_chunks' = n
    /\ stop_typing' = TRUE
    /\ handler_pc' = "await_typing"
    /\ UNCHANGED <<content_type, typing_task, typing_sent, mergeVars,
                   graphVars, optVars, nerVars, qnVars, normVars>>

\* get_rag_answer raises: control goes to "except Exception"
RagAnswerRaises ==
    /\ handler_pc = "answering"
    /\ handler_pc' = "error"
    /\ UNCHANGED <<content_type, stop_typing, typing_task, typing_sent,
                   response_chunks, mergeVars, graphVars, optVars, nerVars,
                   qnVars, normVars>>

\* await typing_task returns once the task has finished
TypingAwaited ==
    /\ handler_pc = "await_typing"
    /\ typing_task = "exited"
    /\ handler_pc' = "sending"
    /\ UNCHANGED <<content_type, stop_typing, typing_task, typing_sent,
                   response_chunks, mergeVars, graphVars, optVars, nerVars,
                   qnVars, normVars>>

\* for chunk in response_chunks: await message.answer(chunk); the answer is
\* sent, or raises and the except branch runs
SendChunk ==
    /\ handler_pc = "sending"
    /\ response_chunks > 0
    /\ \/ /\ response_chunks' = response_chunks - 1
          /\ UNCHANGED handler_pc
       \/ /\ handler_pc' = "error"
          /\ UNCHANGED response_chunks
    /\ UNCHANGED <<content_type, stop_typing, typing_task, typing_sent,
                   mergeVars, graphVars, optVars, nerVars, qnVars, normVars>>

\* logger.info("Response sent ..."): the handler returns
HandlerReturns ==
    /\ handler_pc = "sending"
    /\ response_chunks = 0
    /\ handler_pc' = "finished"
    /\ UNCHANGED <<content_type, stop_typing, typing_task, typing_sent,
                   response_chunks, mergeVars, graphVars, optVars, nerVars,
                   qnVars, normVars>>

\* except Exception: logger.error(...); await safe_send_error(...): the
\* handler ends, whether the error message is sent or not
ErrorBranch ==
    /\ handler_pc = "error"
    /\ handler_pc' = "finished"
    /\ UNCHANGED <<content_type, stop_typing, typing_task, typing_sent,
                   response_chunks, mergeVars, graphVars, optVars, nerVars,
                   qnVars, normVars>>

\* while not stop_event.is_set()
TypingCheck ==
    /\ typing_task = "check"
    /\ typing_task' = IF stop_typing THEN "exited" ELSE "send"
    /\ UNCHANGED <<content_type, handler_pc, stop_typing, typing_sent,
                   response_chunks, mergeVars, graphVars, optVars, nerVars,
                   qnVars, normVars>>

\* await bot.send_chat_action(...): sent, or the failure is logged; then
\* await asyncio.sleep(5) is entered
TypingSend ==
    /\ typing_task = "send"
    /\ typing_sent' \in {typing_sent, Min(typing_sent + 1, MaxTyping)}
    /\ typing_task' = "sleep"
    /\ UNCHANGED <<content_type, handler_pc, stop_typing, response_chunks,
                   mergeVars, graphVars, optVars, nerVars, qnVars, normVars>>

\* asyncio.sleep(5) ends
TypingWakes ==
    /\ typing_task = "sleep"
    /\ typing_task' = "check"
    /\ UNCHANGED <<content_type, handler_pc, stop_typing, typing_sent,
                   response_chunks, mergeVars, graphVars, optVars, nerVars,
                   qnVars, normVars>>

HandlerNext ==
    \/ AnswerNonQuestion
    \/ StartTyping
    \/ RagAnswerReturns
    \/ RagAnswerRaises
    \/ TypingAwaited
    \/ SendChunk
    \/ HandlerReturns
    \/ ErrorBranch
    \/ TypingCheck
    \/ TypingSend
    \/ TypingWakes

SpecHandler == HandlerInit /\ [][HandlerNext]_vars

\* The event loop runs every coroutine that is ready: the awaited calls end
\* and the sleep of the typing task ends.
SpecHandlerFair ==
    /\ SpecHandler
    /\ WF_vars(AnswerNonQuestion)
    /\ WF_vars(StartTyping)
    /\ WF_vars(RagAnswerReturns \/ RagAnswerRaises)
    /\ WF_vars(TypingAwaited)
    /\ WF_vars(SendChunk)
    /\ WF_vars(HandlerReturns)
    /\ WF_vars(ErrorBranch)
    /\ WF_vars(TypingCheck)
    /\ WF_vars(TypingSend)
    /\ WF_vars(TypingWakes)

(***************************************************************************)
(* Properties of the handler                                               *)
(***************************************************************************)
TypingStopped == typing_task \in {"none", "exited"}

\* C30: the typing task started before the answer is computed eventually
\* stops on every path: once get_rag_answer has returned or raised, the stop
\* event is set and the loop of send_typing_action exits, so that no typing
\* task keeps running after the handler has finished.
C30_TypingEventuallyStops ==
    /\ (handler_pc \in {"await_typing", "error"}) ~> TypingStopped
    /\ [](handler_pc = "finished" => TypingStopped \/ stop_typing)

\* What does hold: when get_rag_answer returns, the event is set and the
\* handler goes on only after the typing task has exited.
TypingStopsWhenAnswerReturns ==
    /\ (handler_pc = "await_typing") ~> (typing_task = "exited")
    /\ [](handler_pc = "sending" => typing_task = "exited" /\ stop_typing)
====
